---- MODULE Spec2Model ----
(***************************************************************************)
(* A model of the SQL backend of pivot (backends/sql.go), of the schema    *)
(* model it uses (dal.Collection) and of the indexer interface it calls.   *)
(*                                                                         *)
(* The relational store (database/sql and the driver behind it) and the    *)
(* Indexer implementation are the environment: every call into them may    *)
(* fail, and which call fails is an input of the action that makes it.     *)
(* Every public operation is one action; the calls it makes on the store   *)
(* and on the indexer are logged, in order, in trace.                      *)
(***************************************************************************)
EXTENDS Integers, Sequences, FiniteSets, TLC

\* ------------------------------------------------------------------ bounds

\* records per RecordSet handed to Insert / Update
MaxBatch == 2
\* rows a table can hold (identity values 1..MaxId)
MaxId == 2

\* ------------------------------------------------------------------ values

\* interface{} values: strings and ints, tagged with their dynamic type
StrV(s) == [k |-> "s", s |-> s, n |-> 0]
IntV(n) == [k |-> "i", s |-> "", n |-> n]
\* SQL NULL / Go nil
Null == [k |-> "null", s |-> "", n |-> 0]

\* the strings that parse as integers (strconv), within the model's range
NumStr == <<"1", "2", "3", "4">>
IsNumStr(s) == \E i \in DOMAIN NumStr : NumStr[i] = s
ParseInt(s) == CHOOSE i \in DOMAIN NumStr : NumStr[i] = s
FormatInt(n) == NumStr[n]

\* ------------------------------------------------------------------ errors

Nil == "nil"

\* ------------------------------------------------------- dal.Field, dal.Collection

\* dal.Field: Name, Type ("int" | "str" | a type no dialect maps), Identity
Field(name, type, identity) == [Name |-> name, Type |-> type, Identity |-> identity]
ZeroField == Field("", "", FALSE)

DefaultIdentityField == "id"
DefaultIdentityFieldType == "int"

\* dal.Collection
Collection(name, fields, idField, idType) ==
  [Name |-> name, Fields |-> fields, IdentityField |-> idField, IdentityFieldType |-> idType]

\* Field.ConvertValue: numeric-looking strings convert to ints, ints format as
\* strings, anything else of the wrong type is a conversion error
FieldConvertValue(field, v) ==
  CASE v.k = "null" -> [err |-> Nil, val |-> Null]
    [] field.Type = "int" /\ v.k = "i" -> [err |-> Nil, val |-> v]
    [] field.Type = "int" /\ v.k = "s" /\ IsNumStr(v.s) -> [err |-> Nil, val |-> IntV(ParseInt(v.s))]
    [] field.Type = "str" /\ v.k = "s" -> [err |-> Nil, val |-> v]
    [] field.Type = "str" /\ v.k = "i" -> [err |-> Nil, val |-> StrV(FormatInt(v.n))]
    [] OTHER -> [err |-> "ConvertError", val |-> Null]

\* Collection.GetField: the first field of that name
GetField(c, name) ==
  LET hits == {i \in 1..Len(c.Fields) : c.Fields[i].Name = name}
  IN  IF hits # {}
        THEN [ok |-> TRUE, field |-> c.Fields[CHOOSE i \in hits : \A j \in hits : i <= j]]
        ELSE [ok |-> FALSE, field |-> ZeroField]

\* Collection.ConvertValue
ConvertValue(c, name, v) ==
  LET g == GetField(c, name)
  IN  IF g.ok THEN FieldConvertValue(g.field, v)
              ELSE [err |-> "UnknownField", val |-> Null]

\* dal.Record: ID and Fields (a map from field names to values)
Record(id, fields) == [ID |-> id, Fields |-> fields]
NoFields == [x \in {} |-> Null]
\* record.ID != `` : an interface value equals the empty string only if it is that string
HasID(record) == record.ID # StrV("")

\* ------------------------------------------------------------------ names

\* table / collection names
Names == {"t1", "t2"}

\* ------------------------------------------------- the relational store

\* a table: its columns (as fields; the primary key column has Identity set)
\* and its rows, each a function from column names to values
NoTable == [live |-> FALSE, cols |-> <<>>, rows |-> {}]
ColNames(t) == {t.cols[i].Name : i \in 1..Len(t.cols)}
PkCol(t) == t.cols[CHOOSE i \in 1..Len(t.cols) : t.cols[i].Identity]
ColOf(t, name) == t.cols[CHOOSE i \in 1..Len(t.cols) : t.cols[i].Name = name]

\* column affinity: the store compares and stores a value as the column's type
\* when it converts, and as it is when it does not
Coerce(col, v) ==
  LET cv == FieldConvertValue(col, v) IN IF cv.err = Nil THEN cv.val ELSE v

\* a filter: criteria (field, set of values), all of which a row must meet
Filter(crit) == [crit |-> crit]
FilterAll == Filter({})
FilterEq(field, vals) == Filter({[Field |-> field, Values |-> vals]})
FilterOk(t, f) == \A cr \in f.crit : cr.Field \in ColNames(t)
Matches(t, f, row) ==
  \A cr \in f.crit :
    \E v \in cr.Values : Coerce(ColOf(t, cr.Field), v) = row[cr.Field]

\* INSERT INTO t (keys of input) VALUES (input): fails on a missing table, an
\* unknown column, a duplicate key, a missing key no sequence can supply
UsedInts(t) == {r[PkCol(t).Name].n : r \in {x \in t.rows : x[PkCol(t).Name].k = "i"}}
FreeIds(t) == (1..MaxId) \ UsedInts(t)
NextId(t) == CHOOSE i \in FreeIds(t) : \A j \in FreeIds(t) : i <= j
InsertKey(t, input) ==
  IF PkCol(t).Name \in DOMAIN input
    THEN Coerce(PkCol(t), input[PkCol(t).Name])
    ELSE IF PkCol(t).Type = "int" /\ FreeIds(t) # {} THEN IntV(NextId(t)) ELSE Null
InsertRow(t, input) ==
  [cn \in ColNames(t) |->
     IF cn = PkCol(t).Name THEN InsertKey(t, input)
     ELSE IF cn \in DOMAIN input THEN Coerce(ColOf(t, cn), input[cn]) ELSE Null]
ExecInsert(t, input) ==
  IF /\ t.live
     /\ DOMAIN input \subseteq ColNames(t)
     /\ InsertKey(t, input) # Null
     /\ \A r \in t.rows : r[PkCol(t).Name] # InsertKey(t, input)
    THEN [ok |-> TRUE, table |-> [t EXCEPT !.rows = @ \cup {InsertRow(t, input)}]]
    ELSE [ok |-> FALSE, table |-> t]

\* UPDATE t SET input WHERE f
UpdateRow(t, input, row) ==
  [cn \in ColNames(t) |-> IF cn \in DOMAIN input THEN Coerce(ColOf(t, cn), input[cn]) ELSE row[cn]]
ExecUpdate(t, f, input) ==
  IF t.live /\ DOMAIN input \subseteq ColNames(t) /\ FilterOk(t, f) /\ DOMAIN input # {}
    THEN [ok |-> TRUE,
          table |-> [t EXCEPT !.rows =
                       {IF Matches(t, f, r) THEN UpdateRow(t, input, r) ELSE r : r \in t.rows}]]
    ELSE [ok |-> FALSE, table |-> t]

\* DELETE FROM t WHERE f
ExecDelete(t, f) ==
  IF t.live /\ FilterOk(t, f)
    THEN [ok |-> TRUE, table |-> [t EXCEPT !.rows = {r \in t.rows : ~Matches(t, f, r)}]]
    ELSE [ok |-> FALSE, table |-> t]

\* SELECT ... FROM t WHERE f
QueryRows(t, f) ==
  IF t.live /\ FilterOk(t, f)
    THEN [ok |-> TRUE, rows |-> {r \in t.rows : Matches(t, f, r)}]
    ELSE [ok |-> FALSE, rows |-> {}]

\* CREATE TABLE name (cols) / DROP TABLE name
ExecCreate(t, cols) ==
  IF ~t.live THEN [ok |-> TRUE, table |-> [live |-> TRUE, cols |-> cols, rows |-> {}]]
             ELSE [ok |-> FALSE, table |-> t]
ExecDrop(t) ==
  IF t.live THEN [ok |-> TRUE, table |-> NoTable] ELSE [ok |-> FALSE, table |-> t]

\* a transaction works on a copy of the store: Commit installs the copy,
\* Rollback discards it
TxCommit(base, staged) == staged
\* (a rollback that ends the transaction the way Exists does, by Commit)
TxRollbackCommits(base, staged) == staged
TxRollback(base, staged) == base

\* ------------------------------------------------------------------ state

VARIABLES
  conn,             \* SqlBackend.conn: the backend kind of the connection string
  db,               \* SqlBackend.db: "nil" or "open"
  indexer,          \* SqlBackend.indexer: "nil", "self" or "ext"
  collectionCache,  \* SqlBackend.collectionCache: name -> Collection
  tables,           \* the store: name -> table
  ready,            \* an Initialize call has returned nil
  call,             \* the last operation called, with its arguments
  ret,              \* what it returned
  trace,            \* the calls it made on the store and the indexer, in order
  idxArg,           \* the argument of its Index / IndexRemove call
  collectionCacheLock,  \* SqlBackend.collectionCacheLock: who holds the RWMutex
  goroutines        \* the callers that are inside an operation, step by step

vars == <<conn, db, indexer, collectionCache, tables, ready, call, ret, trace, idxArg,
          collectionCacheLock, goroutines>>

\* the part of the state an operation other than Initialize leaves alone; an
\* operation taken as one step has released the lock when it returns
setup == <<conn, db, indexer, ready, collectionCacheLock, goroutines>>

\* ------------------------------------------------------- the schema cache

\* sync.RWMutex: the goroutines holding it shared, the one holding it exclusively
Unlocked == [readers |-> {}, writer |-> ""]
\* the callers of the backend
Goroutines == {"g1", "g2"}
\* a caller's frame: the operation it is in, where it is in it, and its locals
Idle == [op |-> "", pc |-> "idle", name |-> "", todo |-> {}, knownTables |-> {},
         cachedTables |-> {}, collection |-> Collection("", <<>>, "", ""),
         raced |-> FALSE, err |-> "nil", names |-> {}, committed |-> "nil"]

EmptyCache == [n \in {} |-> Collection("", <<>>, "", "")]
CachePut(cache, name, c) == [n \in DOMAIN cache \cup {name} |-> IF n = name THEN c ELSE cache[n]]
CacheDelete(cache, name) == [n \in DOMAIN cache \ {name} |-> cache[n]]

\* getCollectionFromCache
getCollectionFromCache(cache, name) ==
  IF name \in DOMAIN cache
    THEN [err |-> Nil, collection |-> cache[name]]
    ELSE [err |-> "CollectionNotFound", collection |-> Collection("", <<>>, "", "")]

\* refreshCollectionFunc (the dialect's table introspection): the structural
\* description of one table; a table the store does not have has no fields
Introspect(tbls, name) ==
  IF tbls[name].live
    THEN Collection(name, tbls[name].cols, PkCol(tbls[name]).Name, PkCol(tbls[name]).Type)
    ELSE Collection(name, <<>>, "", "")

\* (the entry replaced whatever the number of fields)
refreshCollectionAlways(cache, tbls, name, fails) ==
  IF ~fails
    THEN [err |-> Nil,
          cache |-> CachePut(cache, Introspect(tbls, name).Name, Introspect(tbls, name))]
    ELSE [err |-> "IntrospectError", cache |-> cache]

\* refreshCollection; fails: the introspection call returns an error
refreshCollection(cache, tbls, name, fails) ==
  IF ~fails
    THEN [err |-> Nil,
          cache |-> IF Len(Introspect(tbls, name).Fields) > 0
                      THEN CachePut(cache, Introspect(tbls, name).Name, Introspect(tbls, name))
                      ELSE cache]
    ELSE [err |-> "IntrospectError", cache |-> cache]

\* the tables listAllTablesQuery reports
LiveTables(tbls) == {n \in Names : tbls[n].live}

\* refreshAllCollections, the loop over the listed tables (errors are logged)
RECURSIVE RefreshEach(_, _, _, _)
RefreshEach(cache, tbls, todo, bad) ==
  IF todo = {} THEN cache
  ELSE LET name == CHOOSE n \in todo : TRUE
       IN  RefreshEach(refreshCollection(cache, tbls, name, name \in bad).cache,
                       tbls, todo \ {name}, bad)

\* (no purge)
PurgeNone(cache, cachedTables, knownTables) == cache

\* refreshAllCollections, the purge of the cached tables the listing did not return
RECURSIVE PurgeEach(_, _, _)
PurgeEach(cache, cachedTables, knownTables) ==
  IF cachedTables = {} THEN cache
  ELSE LET cached == CHOOSE n \in cachedTables : TRUE
       IN  PurgeEach(IF cached \notin knownTables THEN CacheDelete(cache, cached) ELSE cache,
                     cachedTables \ {cached}, knownTables)

\* the introspection queries of that loop ("!": the one of a table in bad fails)
RECURSIVE DetailQueries(_, _)
DetailQueries(todo, bad) ==
  IF todo = {} THEN <<>>
  ELSE LET name == CHOOSE n \in todo : TRUE
       IN  <<IF name \in bad THEN "query:details!" ELSE "query:details">>
           \o DetailQueries(todo \ {name}, bad)
\* one event for each cache entry the purge deletes
Purges(cachedTables, knownTables) ==
  [i \in 1..Cardinality(cachedTables \ knownTables) |-> "purge"]

\* refreshAllCollections; listing: what the table listing returned, bad: the
\* tables whose introspection fails
refreshAllCollections(cache, tbls, listing, bad) ==
  IF listing.kind # "queryErr"
    THEN LET refreshed == RefreshEach(cache, tbls, listing.known, bad)
         IN  [err |-> IF listing.kind = "rowsErr" THEN "RowsError" ELSE Nil,
              cache |-> PurgeEach(refreshed, DOMAIN refreshed, listing.known),
              trace |-> <<"query:tables">> \o DetailQueries(listing.known, bad)
                          \o Purges(DOMAIN refreshed, listing.known)]
    ELSE [err |-> "QueryError", cache |-> cache, trace |-> <<"query:tables!">>]

\* what fails in a refreshAllCollections: nothing, the listing query, the
\* iteration over its rows (the tables in lost are not read), the
\* introspection of the tables in bad
RefreshFault(kind, lost, bad) == [kind |-> kind, lost |-> lost, bad |-> bad]
RefreshFaults(names) ==
  {RefreshFault("ok", {}, {}), RefreshFault("queryErr", {}, {})}
  \cup {RefreshFault("rowsErr", l, {}) : l \in (SUBSET names) \ {{}}}
  \cup {RefreshFault("ok", {}, b) : b \in (SUBSET names) \ {{}}}
\* the listing the store returns under that fault
ListingOf(tbls, rf) ==
  IF rf.kind = "rowsErr" /\ rf.lost \cap LiveTables(tbls) # {}
    THEN [kind |-> "rowsErr", known |-> LiveTables(tbls) \ rf.lost]
  ELSE IF rf.kind = "queryErr" THEN [kind |-> "queryErr", known |-> {}]
  ELSE [kind |-> "ok", known |-> LiveTables(tbls)]

\* ------------------------------------------------------------- Initialize

Backends == {"sqlite", "mysql", "postgres"}
\* options.Indexer, as SetOptions left it before Initialize is called: none,
\* an indexer MakeIndexer knows, one it does not
IndexerOptions == {"", "bleve", "solr"}

\* what an operation returns: the error, and the result of those that have one
NoCollection == Collection("", <<>>, "", "")
NoRecord == [ID |-> Null, Fields |-> [x \in {} |-> Null]]
Ret(err) == [err |-> err, found |-> FALSE, names |-> {}, collection |-> NoCollection,
             record |-> NoRecord]

\* the steps of Initialize that can fail on their own
InitFaults == {"none", "open", "ping", "indexInit"}

\* Initialize: the backend's fields and the calls made when step `fault` fails
InitializeRun(options, fault, rf) ==
  LET before == [err |-> Nil, db |-> db, indexer |-> indexer, cache |-> collectionCache, trace |-> <<>>]
      refresh == refreshAllCollections(collectionCache, tables, ListingOf(tables, rf), rf.bad)
      opened == [before EXCEPT !.db = "open", !.trace = <<"open">>]
      pinged == [opened EXCEPT !.trace = @ \o <<"ping">>]
      refreshed == [pinged EXCEPT !.cache = refresh.cache, !.trace = @ \o refresh.trace]
  IN  IF conn \notin {"sqlite", "mysql"} THEN [before EXCEPT !.err = "UnsupportedBackend"]
      ELSE IF fault = "open" THEN [before EXCEPT !.err = "OpenError", !.trace = <<"open">>]
      ELSE IF fault = "ping" THEN [pinged EXCEPT !.err = "PingError"]
      ELSE IF refresh.err # Nil THEN [refreshed EXCEPT !.err = refresh.err]
      ELSE IF options = "" THEN [refreshed EXCEPT !.indexer = "self"]
      ELSE IF options # "bleve" THEN [refreshed EXCEPT !.err = "UnknownIndexer"]
      ELSE IF fault = "indexInit" THEN [refreshed EXCEPT !.err = "IndexInitError"]
      ELSE [refreshed EXCEPT !.indexer = "ext"]

NoCall == [op |-> "", name |-> "", records |-> <<>>, ids |-> {}, target |-> FALSE, fields |-> <<>>]
NoArg == [op |-> "", name |-> "", records |-> <<>>, ids |-> {}]

\* Initialize, called until it has succeeded
Initialize(names) ==
  /\ ~ready
  /\ \E options \in IndexerOptions, fault \in InitFaults, rf \in RefreshFaults(names) :
       LET r == InitializeRun(options, fault, rf)
       IN  /\ db' = r.db
           /\ indexer' = r.indexer
           /\ collectionCache' = r.cache
           /\ ready' = (r.err = Nil)
           /\ ret' = Ret(r.err)
           /\ trace' = r.trace
  /\ call' = [NoCall EXCEPT !.op = "Initialize"]
  /\ idxArg' = NoArg
  /\ UNCHANGED <<conn, tables, collectionCacheLock, goroutines>>

\* ------------------------------------------------------------------ Insert

\* the call on the store or the indexer that fails in an operation (at most
\* one does: the operation returns at the first), and for a statement of a
\* batch, the record it belongs to
Fault(kind, at) == [kind |-> kind, at |-> at]
NoFault == Fault("none", 0)
InsertFaults(n) ==
  {NoFault, Fault("begin", 0), Fault("commit", 0), Fault("index", 0)}
  \cup (IF conn = "mysql" THEN {Fault("set", 0)} ELSE {})
  \cup {Fault(k, i) : k \in {"render", "exec"}, i \in 1..n}
UpdateFaults(n) ==
  {NoFault, Fault("parse", 0), Fault("begin", 0), Fault("commit", 0), Fault("index", 0)}
  \cup {Fault(k, i) : k \in {"filter", "render", "exec"}, i \in 1..n}
DeleteFaults ==
  {NoFault, Fault("begin", 0), Fault("render", 1), Fault("exec", 1), Fault("commit", 0),
   Fault("index", 0)}

\* faults are inputs of the calls made once the collection was resolved
Cached(name) == name \in DOMAIN collectionCache
FaultsIf(cond, faults) == IF cond THEN faults ELSE {NoFault}

\* the result of a write: the error, the store and the calls made
Written(err, tbls, tr) == [err |-> err, tables |-> tbls, trace |-> tr]

\* the fields of a record that ConvertValue rejects (the loop returns at the
\* first one the map iteration meets)
Rejected(c, record) ==
  {k \in DOMAIN record.Fields : ConvertValue(c, k, record.Fields[k]).err # Nil}
\* (no field value converted)
FieldsErrNone(c, record) == Nil
FieldsErr(c, record) ==
  IF Rejected(c, record) = {} THEN Nil
  ELSE ConvertValue(c, CHOOSE k \in Rejected(c, record) : TRUE,
                    record.Fields[CHOOSE k \in Rejected(c, record) : TRUE]).err

\* queryGen.InputData of an insert: the converted fields, and the converted ID
InsertInput(c, record) ==
  [k \in DOMAIN record.Fields \cup (IF HasID(record) THEN {c.IdentityField} ELSE {}) |->
     IF HasID(record) /\ k = c.IdentityField
       THEN ConvertValue(c, c.IdentityField, record.ID).val
       ELSE ConvertValue(c, k, record.Fields[k]).val]

\* Insert, the loop over the records from record k on; base is the store
\* when the transaction began, staged the transaction's copy of it
RECURSIVE InsertFrom(_, _, _, _, _, _, _)
InsertFrom(c, records, k, fault, base, staged, tr) ==
  IF k > Len(records) THEN Written(Nil, staged, tr)
  ELSE
    LET record == records[k]
        idErr == IF HasID(record) THEN ConvertValue(c, c.IdentityField, record.ID).err ELSE Nil
        done == ExecInsert(staged[c.Name], InsertInput(c, record))
    IN  IF FieldsErr(c, record) # Nil
          THEN Written(FieldsErr(c, record), TxRollback(base, staged), tr \o <<"rollback">>)
        ELSE IF idErr # Nil
          THEN Written(idErr, TxRollback(base, staged), tr \o <<"rollback">>)
        ELSE IF fault = Fault("render", k)
          THEN Written("RenderError", TxRollback(base, staged), tr \o <<"rollback">>)
        ELSE IF fault = Fault("exec", k) \/ ~done.ok
          THEN Written("ExecError", TxRollback(base, staged), tr \o <<"exec:insert", "rollback">>)
        ELSE InsertFrom(c, records, k + 1, fault, base,
                        [staged EXCEPT ![c.Name] = done.table], tr \o <<"exec:insert">>)

\* (the indexer called whatever Commit returned)
CommitAndIndexAnyway(w, fault, base, what) ==
  IF w.err # Nil THEN w
  ELSE IF indexer = "nil" THEN Written(Nil, TxCommit(base, w.tables), w.trace \o <<"commit">>)
  ELSE IF fault.kind = "commit" THEN Written("CommitError", base, w.trace \o <<"commit!", what>>)
  ELSE Written(IF fault.kind = "index" THEN "IndexError" ELSE Nil,
               TxCommit(base, w.tables), w.trace \o <<"commit", what>>)

\* (the write undone when the indexer call fails)
CommitAndIndexUndo(w, fault, base, what) ==
  IF w.err # Nil THEN w
  ELSE IF fault.kind = "commit" THEN Written("CommitError", base, w.trace \o <<"commit!">>)
  ELSE IF indexer = "nil" THEN Written(Nil, TxCommit(base, w.tables), w.trace \o <<"commit">>)
  ELSE IF fault.kind = "index" THEN Written("IndexError", base, w.trace \o <<"commit", what>>)
  ELSE Written(Nil, TxCommit(base, w.tables), w.trace \o <<"commit", what>>)

\* the commit of a write and the indexer call that follows it
CommitAndIndex(w, fault, base, what) ==
  IF w.err # Nil THEN w
  ELSE IF fault.kind = "commit" THEN Written("CommitError", base, w.trace \o <<"commit!">>)
  ELSE IF indexer = "nil" THEN Written(Nil, TxCommit(base, w.tables), w.trace \o <<"commit">>)
  ELSE Written(IF fault.kind = "index" THEN "IndexError" ELSE Nil,
               TxCommit(base, w.tables), w.trace \o <<"commit", what>>)

\* Insert
InsertRun(name, records, fault) ==
  LET got == getCollectionFromCache(collectionCache, name)
      c == got.collection
  IN  IF got.err # Nil THEN Written(got.err, tables, <<>>)
      ELSE IF db = "nil" THEN Written("panic", tables, <<>>)
      ELSE IF fault.kind = "begin" THEN Written("BeginError", tables, <<"begin!">>)
      ELSE IF conn = "mysql" /\ fault.kind = "set"
        THEN Written("ExecError", TxRollback(tables, tables), <<"begin", "exec:set", "rollback">>)
      ELSE CommitAndIndex(
             InsertFrom(c, records, 1, fault, tables, tables,
                        IF conn = "mysql" THEN <<"begin", "exec:set">> ELSE <<"begin">>),
             fault, tables, "Index")

\* the records callers pass: one with an ID, one without, one with a field no
\* collection declares, one whose ID does not convert to an integer
OneField(k, v) == [x \in {k} |-> v]
Records ==
  { Record(IntV(1), OneField("name", StrV("a"))),
    Record(StrV(""), OneField("name", StrV("b"))),
    Record(StrV(""), OneField("colour", StrV("a"))),
    Record(StrV("x"), NoFields) }
RecordSets == UNION {[1..n -> Records] : n \in 0..MaxBatch}

\* the part of a call's record every write shares
Wrote(op, name, records, ids, target, w) ==
  /\ call' = [NoCall EXCEPT !.op = op, !.name = name, !.records = records, !.ids = ids,
                             !.target = target]
  /\ ret' = Ret(w.err)
  /\ trace' = w.trace
  /\ tables' = w.tables
  /\ idxArg' = IF \E i \in 1..Len(w.trace) : w.trace[i] \in {"Index", "IndexRemove"}
                 THEN [op |-> w.trace[Len(w.trace)], name |-> collectionCache[name].Name,
                       records |-> records, ids |-> ids]
                 ELSE NoArg

Insert(names, recordSets) ==
  /\ \E name \in names, records \in recordSets :
       \E fault \in FaultsIf(Cached(name), InsertFaults(Len(records))) :
         LET w == InsertRun(name, records, fault)
         IN  Wrote("Insert", name, records, {}, FALSE, w)
  /\ UNCHANGED <<setup, collectionCache>>

\* ------------------------------------------------------------------ Update

\* the target filters callers pass: the rows whose id is 2
TargetFilter == FilterEq(DefaultIdentityField, {StrV("2")})

\* (the identity field left among the input)
UpdateInputWithIdentity(c, record) == record.Fields

\* queryGen.InputData of an update: the record's fields but the identity field
UpdateInput(c, record) ==
  [k \in DOMAIN record.Fields \ {c.IdentityField} |-> record.Fields[k]]

\* Update, the loop over the records from record k on
RECURSIVE UpdateFrom(_, _, _, _, _, _, _, _)
UpdateFrom(c, records, hasTarget, k, fault, base, staged, tr) ==
  IF k > Len(records) THEN Written(Nil, staged, tr)
  ELSE
    LET record == records[k]
        recordUpdateFilter == IF HasID(record) THEN FilterEq(c.IdentityField, {record.ID})
                              ELSE TargetFilter
        done == ExecUpdate(staged[c.Name], recordUpdateFilter, UpdateInput(c, record))
    IN  IF ~HasID(record) /\ ~hasTarget
          THEN Written("MustTarget", TxRollback(base, staged), tr \o <<"rollback">>)
        ELSE IF HasID(record) /\ fault = Fault("filter", k)
          THEN Written("FilterError", TxRollback(base, staged), tr \o <<"rollback">>)
        ELSE IF fault = Fault("render", k)
          THEN Written("RenderError", TxRollback(base, staged), tr \o <<"rollback">>)
        ELSE IF fault = Fault("exec", k) \/ ~done.ok
          THEN Written("ExecError", TxRollback(base, staged), tr \o <<"exec:update", "rollback">>)
        ELSE UpdateFrom(c, records, hasTarget, k + 1, fault, base,
                        [staged EXCEPT ![c.Name] = done.table], tr \o <<"exec:update">>)

\* Update
UpdateRun(name, records, hasTarget, fault) ==
  LET got == getCollectionFromCache(collectionCache, name)
  IN  IF hasTarget /\ fault.kind = "parse" THEN Written("ParseError", tables, <<>>)
      ELSE IF got.err # Nil THEN Written(got.err, tables, <<>>)
      ELSE IF db = "nil" THEN Written("panic", tables, <<>>)
      ELSE IF fault.kind = "begin" THEN Written("BeginError", tables, <<"begin!">>)
      ELSE CommitAndIndex(
             UpdateFrom(got.collection, records, hasTarget, 1, fault, tables, tables, <<"begin">>),
             fault, tables, "Index")

Update(names, recordSets) ==
  /\ \E name \in names, records \in recordSets, hasTarget \in BOOLEAN :
       \E fault \in FaultsIf(Cached(name) \/ hasTarget, UpdateFaults(Len(records))) :
         LET w == UpdateRun(name, records, hasTarget, fault)
         IN  Wrote("Update", name, records, {}, hasTarget, w)
  /\ UNCHANGED <<setup, collectionCache>>

\* ------------------------------------------------------------------ Delete

\* the id sets callers pass
IdSets == {{IntV(1)}, {StrV("2")}, {IntV(1), IntV(2)}}

\* (the transaction left open when the statement fails)
DeleteRunLeavesTx(name, ids, fault) ==
  LET got == getCollectionFromCache(collectionCache, name)
      c == got.collection
      f == FilterEq(c.IdentityField, ids)
      done == ExecDelete(tables[c.Name], f)
  IN  IF got.err # Nil THEN Written(got.err, tables, <<>>)
      ELSE IF db = "nil" THEN Written("panic", tables, <<>>)
      ELSE IF fault.kind = "begin" THEN Written("BeginError", tables, <<"begin!">>)
      ELSE IF fault.kind = "render"
        THEN Written("RenderError", TxRollback(tables, tables), <<"begin", "rollback">>)
      ELSE IF fault.kind = "exec" \/ ~done.ok
        THEN Written("ExecError", tables, <<"begin", "exec:delete">>)
      ELSE CommitAndIndex(
             Written(Nil, [tables EXCEPT ![c.Name] = done.table], <<"begin", "exec:delete">>),
             fault, tables, "IndexRemove")

\* Delete
DeleteRun(name, ids, fault) ==
  LET got == getCollectionFromCache(collectionCache, name)
      c == got.collection
      f == FilterEq(c.IdentityField, ids)
      done == ExecDelete(tables[c.Name], f)
  IN  IF got.err # Nil THEN Written(got.err, tables, <<>>)
      ELSE IF db = "nil" THEN Written("panic", tables, <<>>)
      ELSE IF fault.kind = "begin" THEN Written("BeginError", tables, <<"begin!">>)
      ELSE IF fault.kind = "render"
        THEN Written("RenderError", TxRollback(tables, tables), <<"begin", "rollback">>)
      ELSE IF fault.kind = "exec" \/ ~done.ok
        THEN Written("ExecError", TxRollback(tables, tables), <<"begin", "exec:delete", "rollback">>)
      ELSE CommitAndIndex(
             Written(Nil, [tables EXCEPT ![c.Name] = done.table], <<"begin", "exec:delete">>),
             fault, tables, "IndexRemove")

Delete(names) ==
  /\ \E name \in names, ids \in IdSets :
       \E fault \in FaultsIf(Cached(name), DeleteFaults) :
         LET w == DeleteRun(name, ids, fault)
         IN  Wrote("Delete", name, <<>>, ids, FALSE, w)
  /\ UNCHANGED <<setup, collectionCache>>

\* ------------------------------------------------------- Exists, Retrieve

\* the ids callers ask for
Ids == {IntV(1), StrV("2")}

\* next: rows.Next() returns false because fetching the row failed
ReadFaults == {NoFault, Fault("begin", 0), Fault("filter", 0), Fault("render", 0),
               Fault("query", 0), Fault("next", 0), Fault("scan", 0)}

\* the result of a read: the error, the answer and the calls made
Read(err, found, record, tr) == [err |-> err, found |-> found, record |-> record, trace |-> tr]

\* (the filter not applied to the query)
ExistsRunAnyRow(name, id, fault) ==
  LET got == getCollectionFromCache(collectionCache, name)
      rows == QueryRows(tables[got.collection.Name], FilterAll)
  IN  IF got.err # Nil THEN Read(Nil, FALSE, NoRecord, <<>>)
      ELSE IF fault.kind = "begin" THEN Read(Nil, FALSE, NoRecord, <<"begin!">>)
      ELSE Read(Nil, rows.rows # {}, NoRecord, <<"begin", "query:select", "commit">>)

\* (the transaction left open when the filter or the statement cannot be built)
ExistsRunLeavesTx(name, id, fault) ==
  LET got == getCollectionFromCache(collectionCache, name)
      c == got.collection
      rows == QueryRows(tables[c.Name], FilterEq(c.IdentityField, {id}))
  IN  IF got.err # Nil THEN Read(Nil, FALSE, NoRecord, <<>>)
      ELSE IF fault.kind = "begin" THEN Read(Nil, FALSE, NoRecord, <<"begin!">>)
      ELSE IF fault.kind \in {"filter", "render"} THEN Read(Nil, FALSE, NoRecord, <<"begin">>)
      ELSE Read(Nil, rows.ok /\ rows.rows # {} /\ fault.kind \notin {"query", "next"}, NoRecord,
                <<"begin", "query:select", "commit">>)

\* Exists; the deferred Commit ends the transaction on every path after Begin
ExistsRun(name, id, fault) ==
  LET got == getCollectionFromCache(collectionCache, name)
      c == got.collection
      rows == QueryRows(tables[c.Name], FilterEq(c.IdentityField, {id}))
  IN  IF got.err # Nil THEN Read(Nil, FALSE, NoRecord, <<>>)
      ELSE IF db = "nil" THEN Read("panic", FALSE, NoRecord, <<>>)
      ELSE IF fault.kind = "begin" THEN Read(Nil, FALSE, NoRecord, <<"begin!">>)
      ELSE IF fault.kind \in {"filter", "render"} THEN Read(Nil, FALSE, NoRecord, <<"begin", "commit">>)
      ELSE IF fault.kind = "query" \/ ~rows.ok
        THEN Read(Nil, FALSE, NoRecord, <<"begin", "query:select", "commit">>)
      ELSE Read(Nil, rows.rows # {} /\ fault.kind # "next", NoRecord,
                <<"begin", "query:select", "commit">>)

\* the columns of a result: those asked for, or all the table has
ResultColumns(t, fields) ==
  IF fields # <<>> THEN fields ELSE [i \in 1..Len(t.cols) |-> t.cols[i].Name]

\* (the identity column's value put with the other fields)
scanFnValueToRecordIdInFields(c, columns, row, scanFails) ==
  LET unknown == {i \in 1..Len(columns) : ~GetField(c, columns[i]).ok}
      converted(i) == FieldConvertValue(GetField(c, columns[i]).field, row[columns[i]])
      failed == {i \in 1..Len(columns) : converted(i).err # Nil}
  IN  IF unknown # {} THEN [err |-> "UnknownField", record |-> NoRecord]
      ELSE IF scanFails THEN [err |-> "ScanError", record |-> NoRecord]
      ELSE IF failed # {} THEN [err |-> "ConvertError", record |-> NoRecord]
      ELSE [err |-> Nil,
            record |-> Record(Null,
                              [k \in {columns[i] : i \in 1..Len(columns)} |->
                                 converted(CHOOSE i \in 1..Len(columns) : columns[i] = k).val])]

\* (a value that does not convert is left out of the record)
scanFnValueToRecordSkipsFailed(c, columns, row, scanFails) ==
  LET unknown == {i \in 1..Len(columns) : ~GetField(c, columns[i]).ok}
      converted(i) == FieldConvertValue(GetField(c, columns[i]).field, row[columns[i]])
      kept == {i \in 1..Len(columns) : converted(i).err = Nil}
      idAt == {i \in kept : columns[i] = c.IdentityField}
  IN  IF unknown # {} THEN [err |-> "UnknownField", record |-> NoRecord]
      ELSE IF scanFails THEN [err |-> "ScanError", record |-> NoRecord]
      ELSE [err |-> Nil,
            record |-> Record(IF idAt = {} THEN Null ELSE converted(CHOOSE i \in idAt : TRUE).val,
                              [k \in {columns[i] : i \in kept} \ {c.IdentityField} |->
                                 converted(CHOOSE i \in kept : columns[i] = k).val])]

\* scanFnValueToRecord: a column the collection does not declare fails before
\* the scan; a value that does not convert abandons the row
scanFnValueToRecord(c, columns, row, scanFails) ==
  LET unknown == {i \in 1..Len(columns) : ~GetField(c, columns[i]).ok}
      converted(i) == FieldConvertValue(GetField(c, columns[i]).field, row[columns[i]])
      failed == {i \in 1..Len(columns) : converted(i).err # Nil}
      idAt == {i \in 1..Len(columns) : columns[i] = c.IdentityField}
  IN  IF unknown # {} THEN [err |-> "UnknownField", record |-> NoRecord]
      ELSE IF scanFails THEN [err |-> "ScanError", record |-> NoRecord]
      ELSE IF failed # {} THEN [err |-> "ConvertError", record |-> NoRecord]
      ELSE [err |-> Nil,
            record |-> Record(IF idAt = {} THEN Null ELSE converted(CHOOSE i \in idAt : TRUE).val,
                              [k \in {columns[i] : i \in 1..Len(columns)} \ {c.IdentityField} |->
                                 converted(CHOOSE i \in 1..Len(columns) : columns[i] = k).val])]

\* Retrieve
RetrieveRun(name, id, fields, fault) ==
  LET got == getCollectionFromCache(collectionCache, name)
      c == got.collection
      t == tables[c.Name]
      rows == QueryRows(t, FilterEq(c.IdentityField, {id}))
      columnsOk == \A i \in 1..Len(fields) : fields[i] \in ColNames(t)
      decoded == scanFnValueToRecord(c, ResultColumns(t, fields),
                                     CHOOSE r \in rows.rows : TRUE, fault.kind = "scan")
  IN  IF got.err # Nil THEN Read(got.err, FALSE, NoRecord, <<>>)
      ELSE IF fault.kind = "filter" THEN Read("FilterError", FALSE, NoRecord, <<>>)
      ELSE IF fault.kind = "render" THEN Read("RenderError", FALSE, NoRecord, <<>>)
      ELSE IF db = "nil" THEN Read("panic", FALSE, NoRecord, <<>>)
      ELSE IF fault.kind = "query" \/ ~rows.ok \/ ~columnsOk
        THEN Read("QueryError", FALSE, NoRecord, <<"query:select">>)
      ELSE IF fault.kind = "next" \/ rows.rows = {}
        THEN Read("RecordNotFound", FALSE, NoRecord, <<"query:select">>)
      ELSE Read(decoded.err, FALSE, decoded.record, <<"query:select">>)

\* the part of a call's record the reads share
Answered(op, name, ids, fields, r) ==
  /\ call' = [NoCall EXCEPT !.op = op, !.name = name, !.ids = ids, !.fields = fields]
  /\ ret' = [Ret(r.err) EXCEPT !.found = r.found, !.record = r.record]
  /\ trace' = r.trace
  /\ idxArg' = NoArg

Exists(names) ==
  /\ \E name \in names, id \in Ids :
       \E fault \in FaultsIf(Cached(name), ReadFaults \ {Fault("scan", 0)}) :
         LET r == ExistsRun(name, id, fault)
         IN  Answered("Exists", name, {id}, <<>>, r)
  /\ UNCHANGED <<setup, collectionCache, tables>>

Retrieve(names) ==
  /\ \E name \in names, id \in Ids, fields \in {<<>>, <<"name">>} :
       \E fault \in FaultsIf(Cached(name), ReadFaults \ {Fault("begin", 0)}) :
         LET r == RetrieveRun(name, id, fields, fault)
         IN  Answered("Retrieve", name, {id}, fields, r)
  /\ UNCHANGED <<setup, collectionCache, tables>>

\* ------------------------------------------------------ collection management

\* the definitions callers create: identity field unset, and a field of a
\* type the dialect has no native type for
Definitions ==
  { Collection(n, <<Field("name", "str", FALSE)>>, "", "int") : n \in Names }
  \cup { Collection(n, <<Field("name", "object", FALSE)>>, "id", "int") : n \in Names }

\* gen.ToNativeType
ToNativeType(type) ==
  IF type \in {"int", "str"} THEN [err |-> Nil, type |-> type]
                             ELSE [err |-> "UnsupportedType", type |-> ""]

\* CreateCollection: the identity field of the definition after defaulting
CreateIdentityField(definition) ==
  IF definition.IdentityField = "" THEN DefaultIdentityField ELSE definition.IdentityField

\* CreateCollection: the columns of the CREATE TABLE statement
CreateColumns(definition) ==
  <<Field(CreateIdentityField(definition),
          IF definition.IdentityFieldType = "str" THEN "str" ELSE "int", TRUE)>>
  \o [i \in 1..Len(definition.Fields) |->
        Field(definition.Fields[i].Name, ToNativeType(definition.Fields[i].Type).type, FALSE)]

\* the result of an operation on the schema: error, store, cache, calls made
Managed(err, tbls, cache, tr) == [err |-> err, tables |-> tbls, cache |-> cache, trace |-> tr]

CreateFaults == {NoFault, Fault("begin", 0), Fault("exec", 1), Fault("commit", 0)}

\* (the schema cache refreshed before the commit)
CreateCollectionRunRefreshFirst(definition, fault, rf) ==
  LET made == ExecCreate(tables[definition.Name], CreateColumns(definition))
      after == IF fault.kind = "commit" THEN TxRollback(tables, tables)
               ELSE TxCommit(tables, [tables EXCEPT ![definition.Name] = made.table])
      refresh == refreshAllCollections(collectionCache, tables, ListingOf(tables, rf), rf.bad)
  IN  IF \E i \in 1..Len(definition.Fields) : ToNativeType(definition.Fields[i].Type).err # Nil
        THEN Managed("UnsupportedType", tables, collectionCache, <<>>)
      ELSE IF db = "nil" THEN Managed("panic", tables, collectionCache, <<>>)
      ELSE IF fault.kind = "begin" THEN Managed("BeginError", tables, collectionCache, <<"begin!">>)
      ELSE IF fault.kind = "exec" \/ ~made.ok
        THEN Managed("ExecError", TxRollback(tables, tables), collectionCache,
                     <<"begin", "exec:create", "rollback">>)
      ELSE Managed(IF fault.kind = "commit" THEN "CommitError" ELSE Nil, after, refresh.cache,
                   <<"begin", "exec:create">> \o refresh.trace
                   \o (IF fault.kind = "commit" THEN <<"commit!">> ELSE <<"commit">>))

\* CreateCollection; the deferred refreshAllCollections runs after the commit
\* was attempted, whatever Commit returned
CreateCollectionRun(definition, fault, rf) ==
  LET made == ExecCreate(tables[definition.Name], CreateColumns(definition))
      after == IF fault.kind = "commit" THEN TxRollback(tables, tables)
               ELSE TxCommit(tables, [tables EXCEPT ![definition.Name] = made.table])
      refresh == refreshAllCollections(collectionCache, after, ListingOf(after, rf), rf.bad)
  IN  IF \E i \in 1..Len(definition.Fields) : ToNativeType(definition.Fields[i].Type).err # Nil
        THEN Managed("UnsupportedType", tables, collectionCache, <<>>)
      ELSE IF db = "nil" THEN Managed("panic", tables, collectionCache, <<>>)
      ELSE IF fault.kind = "begin" THEN Managed("BeginError", tables, collectionCache, <<"begin!">>)
      ELSE IF fault.kind = "exec" \/ ~made.ok
        THEN Managed("ExecError", TxRollback(tables, tables), collectionCache,
                     <<"begin", "exec:create", "rollback">>)
      ELSE Managed(IF fault.kind = "commit" THEN "CommitError" ELSE Nil, after, refresh.cache,
                   <<"begin", "exec:create">>
                   \o (IF fault.kind = "commit" THEN <<"commit!">> ELSE <<"commit">>)
                   \o refresh.trace)

\* (the cache entry deleted when the drop commits)
DeleteCollectionRunPurges(collectionName, fault) ==
  LET got == getCollectionFromCache(collectionCache, collectionName)
      dropped == ExecDrop(tables[collectionName])
  IN  IF got.err # Nil THEN Managed(got.err, tables, collectionCache, <<>>)
      ELSE IF db = "nil" THEN Managed("panic", tables, collectionCache, <<>>)
      ELSE IF fault.kind = "begin" THEN Managed("BeginError", tables, collectionCache, <<"begin!">>)
      ELSE IF fault.kind = "exec" \/ ~dropped.ok
        THEN Managed("ExecError", TxRollback(tables, tables), collectionCache,
                     <<"begin", "exec:drop", "rollback">>)
      ELSE IF fault.kind = "commit"
        THEN Managed("CommitError", tables, collectionCache, <<"begin", "exec:drop", "commit!">>)
      ELSE Managed(Nil, TxCommit(tables, [tables EXCEPT ![collectionName] = dropped.table]),
                   CacheDelete(collectionCache, collectionName),
                   <<"begin", "exec:drop", "commit">>)

\* (the table dropped without looking the collection up in the cache)
DeleteCollectionRunUnchecked(collectionName, fault) ==
  LET dropped == ExecDrop(tables[collectionName])
  IN  IF db = "nil" THEN Managed("panic", tables, collectionCache, <<>>)
      ELSE IF fault.kind = "begin" THEN Managed("BeginError", tables, collectionCache, <<"begin!">>)
      ELSE IF fault.kind = "exec" \/ ~dropped.ok
        THEN Managed("ExecError", TxRollback(tables, tables), collectionCache,
                     <<"begin", "exec:drop", "rollback">>)
      ELSE IF fault.kind = "commit"
        THEN Managed("CommitError", tables, collectionCache, <<"begin", "exec:drop", "commit!">>)
      ELSE Managed(Nil, TxCommit(tables, [tables EXCEPT ![collectionName] = dropped.table]),
                   collectionCache, <<"begin", "exec:drop", "commit">>)

\* DeleteCollection
DeleteCollectionRun(collectionName, fault) ==
  LET got == getCollectionFromCache(collectionCache, collectionName)
      dropped == ExecDrop(tables[collectionName])
  IN  IF got.err # Nil THEN Managed(got.err, tables, collectionCache, <<>>)
      ELSE IF db = "nil" THEN Managed("panic", tables, collectionCache, <<>>)
      ELSE IF fault.kind = "begin" THEN Managed("BeginError", tables, collectionCache, <<"begin!">>)
      ELSE IF fault.kind = "exec" \/ ~dropped.ok
        THEN Managed("ExecError", TxRollback(tables, tables), collectionCache,
                     <<"begin", "exec:drop", "rollback">>)
      ELSE IF fault.kind = "commit"
        THEN Managed("CommitError", tables, collectionCache, <<"begin", "exec:drop", "commit!">>)
      ELSE Managed(Nil, TxCommit(tables, [tables EXCEPT ![collectionName] = dropped.table]),
                   collectionCache, <<"begin", "exec:drop", "commit">>)

\* the part of a call's record the schema operations share
Did(op, name, m, result) ==
  /\ call' = [NoCall EXCEPT !.op = op, !.name = name]
  /\ ret' = result
  /\ trace' = m.trace
  /\ tables' = m.tables
  /\ collectionCache' = m.cache
  /\ idxArg' = NoArg

CreateCollection(names) ==
  /\ \E definition \in {d \in Definitions : d.Name \in names},
        fault \in FaultsIf(db # "nil", CreateFaults) :
       \E rf \in IF fault.kind \in {"none", "commit"} THEN RefreshFaults(names)
                  ELSE {RefreshFault("ok", {}, {})} :
         LET m == CreateCollectionRun(definition, fault, rf)
         IN  Did("CreateCollection", definition.Name, m, Ret(m.err))
  /\ UNCHANGED setup

DeleteCollection(names) ==
  /\ \E collectionName \in names :
       \E fault \in FaultsIf(Cached(collectionName), CreateFaults) :
       LET m == DeleteCollectionRun(collectionName, fault)
       IN  Did("DeleteCollection", collectionName, m, Ret(m.err))
  /\ UNCHANGED setup

\* ListCollections
ListCollectionsRun(rf) ==
  LET refresh == refreshAllCollections(collectionCache, tables, ListingOf(tables, rf), rf.bad)
  IN  IF db = "nil" THEN [err |-> "panic", names |-> {}, cache |-> collectionCache, trace |-> <<>>]
      ELSE IF refresh.err = Nil
        THEN [err |-> Nil, names |-> DOMAIN refresh.cache, cache |-> refresh.cache,
              trace |-> refresh.trace]
      ELSE [err |-> refresh.err, names |-> {}, cache |-> refresh.cache, trace |-> refresh.trace]

\* GetCollection
GetCollectionRun(name, fails) ==
  LET refresh == refreshCollection(collectionCache, tables, name, fails)
      got == getCollectionFromCache(refresh.cache, name)
  IN  IF db = "nil"
        THEN [err |-> "panic", collection |-> NoCollection, cache |-> collectionCache, trace |-> <<>>]
      ELSE IF refresh.err # Nil
        THEN [err |-> refresh.err, collection |-> NoCollection, cache |-> refresh.cache,
              trace |-> <<"query:details!">>]
      ELSE [err |-> got.err, collection |-> got.collection, cache |-> refresh.cache,
            trace |-> <<"query:details">>]

ListCollections(names) ==
  /\ \E rf \in RefreshFaults(names) :
       LET r == ListCollectionsRun(rf)
       IN  Did("ListCollections", "", Managed(r.err, tables, r.cache, r.trace),
               [Ret(r.err) EXCEPT !.names = r.names])
  /\ UNCHANGED setup

GetCollection(names) ==
  /\ \E name \in names, fails \in BOOLEAN :
       LET r == GetCollectionRun(name, fails)
       IN  Did("GetCollection", name, Managed(r.err, tables, r.cache, r.trace),
               [Ret(r.err) EXCEPT !.collection = r.collection])
  /\ UNCHANGED setup

\* a table is dropped by another client of the store
ExternalDrop ==
  /\ \E n \in Names : tables[n].live /\ tables' = [tables EXCEPT ![n] = NoTable]
  /\ call' = [NoCall EXCEPT !.op = "ExternalDrop"]
  /\ ret' = Ret(Nil)
  /\ trace' = <<>>
  /\ idxArg' = NoArg
  /\ UNCHANGED <<setup, collectionCache>>

Init ==
  /\ conn \in Backends
  /\ db = "nil"
  /\ indexer = "nil"
  /\ collectionCache = EmptyCache
  /\ tables \in {[n \in Names |-> NoTable]}
  /\ ready = FALSE
  /\ call = NoCall
  /\ ret = Ret(Nil)
  /\ trace = <<>>
  /\ idxArg = NoArg
  /\ collectionCacheLock = Unlocked
  /\ goroutines = [g \in Goroutines |-> Idle]

\* the collections of the data path: one table and its rows
DataNames == {"t1"}
\* record sets of at most one record
SmallRecordSets == {rs \in RecordSets : Len(rs) <= 1}

\* every operation, on the collections in names, with the record sets given
\* to Insert and to Update
Operations(names, insertSets, updateSets) ==
  \/ Initialize(names)
  \/ Insert(names, insertSets)
  \/ Update(names, updateSets)
  \/ Delete(names)
  \/ Exists(names)
  \/ Retrieve(names)
  \/ CreateCollection(names)
  \/ DeleteCollection(names)
  \/ ListCollections(names)
  \/ GetCollection(names)
  \/ ExternalDrop

\* one collection, batches inserted
Next == Operations(DataNames, RecordSets, SmallRecordSets)
Spec == Init /\ [][Next]_vars

\* one collection, batches updated
NextUpdate == Operations(DataNames, SmallRecordSets, RecordSets)
SpecUpdate == Init /\ [][NextUpdate]_vars

\* all collections, one record with an ID
OneRecordSets == {rs \in SmallRecordSets : \A i \in 1..Len(rs) : rs[i].ID = IntV(1)}
NextSchema == Operations(Names, OneRecordSets, OneRecordSets)
SpecSchema == Init /\ [][NextSchema]_vars

\* updates of one record that names the identity field among its fields, with
\* an ID and without one, on a table rows are inserted into one at a time
IdAndName(id, name) == [k \in {DefaultIdentityField, "name"} |->
                          IF k = DefaultIdentityField THEN id ELSE name]
TargetRecordSets ==
  { <<Record(IntV(1), IdAndName(IntV(2), StrV("c")))>>,
    <<Record(StrV(""), IdAndName(IntV(1), StrV("c")))>>,
    <<Record(IntV(1), OneField("name", StrV("b")))>> }
NextTarget == Operations(DataNames, SmallRecordSets, TargetRecordSets)
SpecTarget == Init /\ [][NextTarget]_vars

\* ------------------------------------------------------------ pagination

\* math.Ceil(float64(a) / float64(b)) for b > 0, converted to int
Ceil(a, b) == -((-a) \div b)

\* dal.RecordSet, its pagination fields
RecordSet(resultCount, totalPages, page, recordsPerPage) ==
  [ResultCount |-> resultCount, TotalPages |-> totalPages, Page |-> page,
   RecordsPerPage |-> recordsPerPage]
\* IndexPage
IndexPage(page, totalPages, limit, offset, totalResults) ==
  [Page |-> page, TotalPages |-> totalPages, Limit |-> limit, Offset |-> offset,
   TotalResults |-> totalResults]
\* filter.Filter, its Limit and Offset
FilterPage(limit, offset) == [Limit |-> limit, Offset |-> offset]

\* PopulateRecordSetPageDetails: the record set it leaves
PopulateRecordSetPageDetails(recordset, f, page) ==
  [ResultCount |-> page.TotalResults,
   TotalPages |-> IF page.TotalPages > 0 THEN page.TotalPages
                  ELSE IF page.TotalResults >= 0 /\ f.Limit > 0
                    THEN Ceil(page.TotalResults, f.Limit)
                  ELSE recordset.TotalPages,
   RecordsPerPage |-> IF recordset.RecordsPerPage = 0 THEN page.Limit
                      ELSE recordset.RecordsPerPage,
   Page |-> IF page.Limit > 0 THEN Ceil(f.Offset + 1, page.Limit) ELSE recordset.Page]

\* the record sets, filters and pages callers pass
PageRecordSets ==
  {RecordSet(0, tp, 0, rpp) : tp \in {0, 9}, rpp \in {0, 20, 25}}
PageFilters == {FilterPage(l, o) : l \in {0, 10, 20}, o \in {0, 19, 20, 40}}
IndexPages ==
  {IndexPage(1, tp, l, 0, tr) : tp \in {0, 3, 6}, l \in {0, 10, 20}, tr \in {-1, 0, 1, 41, 101}}

PopulatePage ==
  /\ call = NoCall
  /\ \E recordset \in PageRecordSets, f \in PageFilters, page \in IndexPages :
       /\ call' = [op |-> "PopulateRecordSetPageDetails", recordset |-> recordset,
                   f |-> f, page |-> page]
       /\ ret' = [recordset |-> PopulateRecordSetPageDetails(recordset, f, page)]
  /\ UNCHANGED <<setup, collectionCache, tables, trace, idxArg>>

\* the pagination helper applied once, to every input
NextPage == PopulatePage
SpecPage == Init /\ [][NextPage]_vars

\* ------------------------------------------------------------ schema diff

\* SchemaDelta
SchemaDelta(type, message, name, parameter, desired, actual) ==
  [Type |-> type, Message |-> message, Name |-> name, Parameter |-> parameter,
   Desired |-> desired, Actual |-> actual]

\* a dal.Field of a declared schema: Name, Type, Required
SchemaField(name, type, required) ==
  [Name |-> name, Type |-> type, Identity |-> FALSE, Required |-> required]

\* Field.Diff: one delta for each attribute of the two fields that differs
FieldDiff(myField, theirField) ==
  (IF myField.Type # theirField.Type
     THEN <<SchemaDelta("FieldDelta", "does not match", myField.Name, "Type",
                        myField.Type, theirField.Type)>>
     ELSE <<>>)
  \o (IF myField.Required # theirField.Required
        THEN <<SchemaDelta("FieldDelta", "does not match", myField.Name, "Required",
                           myField.Required, theirField.Required)>>
        ELSE <<>>)

\* Diff, the loop over desired's fields from field k on
RECURSIVE DiffFieldsFrom(_, _, _)
DiffFieldsFrom(self, actual, k) ==
  IF k > Len(self.Fields) THEN <<>>
  ELSE LET myField == self.Fields[k]
           theirs == GetField(actual, myField.Name)
       IN  (IF theirs.ok THEN FieldDiff(myField, theirs.field)
            ELSE <<SchemaDelta("FieldDelta", "is missing", myField.Name, "", "", "")>>)
           \o DiffFieldsFrom(self, actual, k + 1)

\* Diff, the comparison of name, identity field and identity field type
DiffCollection(self, actual) ==
  (IF self.Name # actual.Name
     THEN <<SchemaDelta("CollectionDelta", "names do not match", self.Name, "",
                        self.Name, actual.Name)>>
     ELSE <<>>)
  \o (IF self.IdentityField # actual.IdentityField
        THEN <<SchemaDelta("CollectionDelta", "does not match", self.Name, "IdentityField",
                           self.IdentityField, actual.IdentityField)>>
        ELSE <<>>)
  \o (IF self.IdentityFieldType # actual.IdentityFieldType
        THEN <<SchemaDelta("CollectionDelta", "does not match", self.Name, "IdentityFieldType",
                           self.IdentityFieldType, actual.IdentityFieldType)>>
        ELSE <<>>)

\* (the field deltas put before the collection's)
DiffFieldsFirst(self, actual) ==
  DiffFieldsFrom(self, actual, 1) \o DiffCollection(self, actual)

\* Collection.Diff; the nil slice it returns for no differences is the empty
\* sequence
Diff(self, actual) ==
  DiffCollection(self, actual) \o DiffFieldsFrom(self, actual, 1)

\* the fields and the collections callers compare; AddFields appends
\* without looking at the names, so a name can be declared twice
MaxFields == 2
SchemaFields ==
  {SchemaField("name", "str", FALSE), SchemaField("name", "int", TRUE),
   SchemaField("age", "int", FALSE), SchemaField("size", "int", FALSE)}
SchemaCollections ==
  {Collection(n, fs, idf, idt) :
     n \in Names, fs \in UNION {[1..k -> SchemaFields] : k \in 0..MaxFields},
     idf \in {"id", "key"}, idt \in {"int", "str"}}

\* Diff takes both collections by pointer: desired and actual of the result are
\* what it leaves in them (it assigns to neither)
DiffCall ==
  /\ call = NoCall
  /\ \E desired \in SchemaCollections, actual \in SchemaCollections :
       /\ call' = [op |-> "Diff", desired |-> desired, actual |-> actual]
       /\ ret' = [deltas |-> Diff(desired, actual), desired |-> desired, actual |-> actual]
  /\ UNCHANGED <<setup, collectionCache, tables, trace, idxArg>>

\* Diff applied once, to every pair of collections
NextDiff == DiffCall
SpecDiff == Init /\ [][NextDiff]_vars

\* ------------------------------------- the schema cache, one step at a time

\* what the steps of the cache leave alone
rest == <<conn, db, indexer, ready, call, ret, trace, idxArg>>

At(g, pcs) == goroutines[g].pc \in pcs
Becomes(g, f) == goroutines' = [goroutines EXCEPT ![g] = f]
\* the operation returns to its caller
Returns(g, err, names) == Becomes(g, [Idle EXCEPT !.err = err, !.names = names])

\* a caller enters ListCollections, GetCollection, or one of the operations
\* that start with getCollectionFromCache
Go(g) ==
  /\ At(g, {"idle"})
  /\ \/ Becomes(g, [Idle EXCEPT !.op = "ListCollections", !.pc = "Query"])
     \/ \E name \in Names :
          Becomes(g, [Idle EXCEPT !.op = "GetCollection", !.name = name,
                                  !.pc = "refreshCollection"])
     \/ \E name \in Names :
          Becomes(g, [Idle EXCEPT !.op = "getCollectionFromCache", !.name = name,
                                  !.pc = "RLock"])
  /\ UNCHANGED <<collectionCache, collectionCacheLock, tables, rest>>

\* refreshAllCollections: the table listing query returns
Listed(g) ==
  /\ At(g, {"Query"})
  /\ \/ Returns(g, IF goroutines[g].op = "CreateCollection" THEN goroutines[g].committed
                                                              ELSE "QueryError", {})
     \/ Becomes(g, [goroutines[g] EXCEPT !.pc = "Next", !.todo = LiveTables(tables)])
  /\ UNCHANGED <<collectionCache, collectionCacheLock, tables, rest>>

\* refreshAllCollections: rows.Next() yields the next table, or ends the
\* loop, at the last row or on an error
RowsNext(g) ==
  LET f == goroutines[g]
  IN  /\ At(g, {"Next"})
      /\ \/ \E name \in f.todo :
              Becomes(g, [f EXCEPT !.pc = "refreshCollection", !.name = name,
                                   !.todo = @ \ {name}, !.knownTables = @ \cup {name}])
         \/ /\ f.todo = {}
            /\ Becomes(g, [f EXCEPT !.pc = "RLock"])
         \/ /\ f.todo # {}
            /\ Becomes(g, [f EXCEPT !.pc = "RLock", !.todo = {}, !.err = "RowsError"])
      /\ UNCHANGED <<collectionCache, collectionCacheLock, tables, rest>>

\* (the lock taken before the introspection query is sent)
CallIntrospectLocked(g) ==
  /\ At(g, {"refreshCollection"})
  /\ collectionCacheLock = Unlocked
  /\ collectionCacheLock' = [collectionCacheLock EXCEPT !.writer = g]
  /\ Becomes(g, [goroutines[g] EXCEPT !.pc = "refreshCollectionFunc"])
  /\ UNCHANGED <<collectionCache, tables, rest>>

\* refreshCollection: the introspection query is sent
CallIntrospect(g) ==
  /\ At(g, {"refreshCollection"})
  /\ Becomes(g, [goroutines[g] EXCEPT !.pc = "refreshCollectionFunc"])
  /\ UNCHANGED <<collectionCache, collectionCacheLock, tables, rest>>

\* refreshCollection: the introspection query returns, an error or the
\* structural description of the table
Introspected(g) ==
  LET f == goroutines[g]
      collection == Introspect(tables, f.name)
      back == IF f.op = "GetCollection" THEN "RLock" ELSE "Next"
  IN  /\ At(g, {"refreshCollectionFunc"})
      /\ \/ IF f.op = "GetCollection" THEN Returns(g, "IntrospectError", {})
                                      ELSE Becomes(g, [f EXCEPT !.pc = "Next"])
         \/ /\ Len(collection.Fields) > 0
            /\ Becomes(g, [f EXCEPT !.pc = "Lock", !.collection = collection])
         \/ /\ Len(collection.Fields) = 0
            /\ Becomes(g, [f EXCEPT !.pc = back])
      /\ UNCHANGED <<collectionCache, collectionCacheLock, tables, rest>>

\* collectionCacheLock.Lock(), in refreshCollection and in the purge
Lock(g) ==
  /\ At(g, {"Lock", "purgeLock"})
  /\ collectionCacheLock = Unlocked
  /\ collectionCacheLock' = [collectionCacheLock EXCEPT !.writer = g]
  /\ Becomes(g, [goroutines[g] EXCEPT !.pc = IF @ = "Lock" THEN "insert" ELSE "delete"])
  /\ UNCHANGED <<collectionCache, tables, rest>>

\* the map insert or delete starts; a read of the map that is under way races
\* with it
BeginWrite(g) ==
  /\ At(g, {"insert", "delete"})
  /\ goroutines' =
       [h \in Goroutines |->
          IF h = g THEN [goroutines[g] EXCEPT !.pc = IF @ = "insert" THEN "inserting"
                                                                      ELSE "deleting"]
          ELSE IF goroutines[h].pc = "reading" THEN [goroutines[h] EXCEPT !.raced = TRUE]
          ELSE goroutines[h]]
  /\ UNCHANGED <<collectionCache, collectionCacheLock, tables, rest>>

\* the map insert (refreshCollection) or delete (the purge) is done
EndWrite(g) ==
  LET f == goroutines[g]
  IN  /\ At(g, {"inserting", "deleting"})
      /\ collectionCache' =
           IF f.pc = "inserting" THEN CachePut(collectionCache, f.collection.Name, f.collection)
                                 ELSE CacheDelete(collectionCache, f.name)
      /\ Becomes(g, [f EXCEPT !.pc = IF @ = "inserting" THEN "Unlock" ELSE "purgeUnlock"])
      /\ UNCHANGED <<collectionCacheLock, tables, rest>>

\* collectionCacheLock.Unlock(): deferred in refreshCollection, which then
\* returns nil to GetCollection or to the loop; inline in the purge
Unlock(g) ==
  LET f == goroutines[g]
  IN  /\ At(g, {"Unlock", "purgeUnlock"})
      /\ collectionCacheLock' = [collectionCacheLock EXCEPT !.writer = ""]
      /\ Becomes(g, [f EXCEPT !.pc = IF @ = "purgeUnlock" THEN "purge"
                                     ELSE IF f.op = "GetCollection" THEN "RLock"
                                     ELSE "Next"])
      /\ UNCHANGED <<collectionCache, tables, rest>>

\* collectionCacheLock.RLock(), in getCollectionFromCache and before the purge
RLock(g) ==
  /\ At(g, {"RLock"})
  /\ collectionCacheLock.writer = ""
  /\ collectionCacheLock' = [collectionCacheLock EXCEPT !.readers = @ \cup {g}]
  /\ Becomes(g, [goroutines[g] EXCEPT !.pc = "read"])
  /\ UNCHANGED <<collectionCache, tables, rest>>

\* a read of the map starts: the lookup, the keys taken before the purge, the
\* keys ListCollections returns; it races with a write that is under way
BeginRead(g) ==
  /\ At(g, {"read", "keys"})
  /\ Becomes(g, [goroutines[g] EXCEPT
                   !.pc = "reading",
                   !.raced = \E h \in Goroutines \ {g} :
                                goroutines[h].pc \in {"inserting", "deleting"}])
  /\ UNCHANGED <<collectionCache, collectionCacheLock, tables, rest>>

\* the keys a read of the map finds: those of the map, or, when the read
\* raced with a write, any
KeysSeen(f) == IF f.raced THEN SUBSET Names ELSE {DOMAIN collectionCache}

\* the read of the map ends; one that raced with a write may also end the
\* process (fatal error: concurrent map read and map write)
EndRead(g) ==
  LET f == goroutines[g]
  IN  /\ At(g, {"reading"})
      /\ \/ /\ f.op = "ListCollections"
            /\ g \in collectionCacheLock.readers
            /\ \E keys \in KeysSeen(f) :
                 Becomes(g, [f EXCEPT !.pc = "RUnlock", !.cachedTables = keys])
         \/ /\ f.op = "ListCollections"
            /\ g \notin collectionCacheLock.readers
            /\ \E keys \in KeysSeen(f) : Returns(g, Nil, keys)
         \/ /\ f.op # "ListCollections"
            /\ \E keys \in KeysSeen(f) :
                 Becomes(g, [f EXCEPT !.pc = "RUnlock",
                                      !.err = IF f.name \in keys THEN Nil
                                              ELSE "CollectionNotFound"])
         \/ /\ f.raced
            /\ goroutines' = [h \in Goroutines |-> [Idle EXCEPT !.pc = "crashed", !.err = "fatal"]]
      /\ UNCHANGED <<collectionCache, collectionCacheLock, tables, rest>>

\* collectionCacheLock.RUnlock(); getCollectionFromCache returns, the purge starts
RUnlock(g) ==
  LET f == goroutines[g]
  IN  /\ At(g, {"RUnlock"})
      /\ collectionCacheLock' = [collectionCacheLock EXCEPT !.readers = @ \ {g}]
      /\ IF f.op = "ListCollections" THEN Becomes(g, [f EXCEPT !.pc = "purge"])
                                     ELSE Returns(g, f.err, {})
      /\ UNCHANGED <<collectionCache, tables, rest>>

\* refreshAllCollections, the purge loop: the next cached table the listing
\* did not return, or the end of the loop: rows.Err() is returned and
\* ListCollections goes on to the keys when it is nil; CreateCollection, which
\* deferred the call, returns what Commit returned
Purge(g) ==
  LET f == goroutines[g]
  IN  /\ At(g, {"purge"})
      /\ \/ \E cached \in f.cachedTables \ f.knownTables :
              Becomes(g, [f EXCEPT !.pc = "purgeLock", !.name = cached,
                                   !.cachedTables = @ \ {cached}])
         \/ /\ f.cachedTables \subseteq f.knownTables
            /\ f.err = Nil
            /\ IF f.op = "CreateCollection" THEN Returns(g, f.committed, {})
                                            ELSE Becomes(g, [f EXCEPT !.pc = "keys"])
         \/ /\ f.cachedTables \subseteq f.knownTables
            /\ f.err # Nil
            /\ Returns(g, IF f.op = "CreateCollection" THEN f.committed ELSE f.err, {})
      /\ UNCHANGED <<collectionCache, collectionCacheLock, tables, rest>>

\* a backend that Initialize has opened on a store holding both tables; the
\* introspection of the tables in bad failed then
InitCache ==
  /\ conn = "sqlite"
  /\ db = "open"
  /\ indexer = "self"
  /\ ready = TRUE
  /\ tables = [n \in Names |->
                 ExecCreate(NoTable,
                            CreateColumns(Collection(n, <<Field("name", "str", FALSE)>>,
                                                     "", "int"))).table]
  /\ collectionCache \in {RefreshEach(EmptyCache, tables, Names, bad) : bad \in SUBSET Names}
  /\ call = NoCall
  /\ ret = Ret(Nil)
  /\ trace = <<>>
  /\ idxArg = NoArg
  /\ collectionCacheLock = Unlocked
  /\ goroutines = [g \in Goroutines |-> Idle]

\* the callers run their operations step by step, in any interleaving, while
\* other clients of the store drop tables
NextCache ==
  \/ \E g \in Goroutines :
       \/ Go(g)
       \/ Listed(g)
       \/ RowsNext(g)
       \/ CallIntrospect(g)
       \/ Introspected(g)
       \/ Lock(g)
       \/ BeginWrite(g)
       \/ EndWrite(g)
       \/ Unlock(g)
       \/ RLock(g)
       \/ BeginRead(g)
       \/ EndRead(g)
       \/ RUnlock(g)
       \/ Purge(g)
  \/ ExternalDrop
SpecCache == InitCache /\ [][NextCache]_vars

\* a caller enters CreateCollection, which begins its transaction
GoCreate(g) ==
  /\ At(g, {"idle"})
  /\ \E name \in Names :
       Becomes(g, [Idle EXCEPT !.op = "CreateCollection", !.name = name, !.pc = "Exec"])
  /\ UNCHANGED <<collectionCache, collectionCacheLock, tables, rest>>

\* CreateCollection: the CREATE TABLE statement fails (the transaction is
\* rolled back and the error returned), or it succeeds and Commit installs the
\* table or fails; the deferred refreshAllCollections then runs
Created(g) ==
  LET f == goroutines[g]
      made == ExecCreate(tables[f.name],
                         CreateColumns(Collection(f.name, <<Field("name", "str", FALSE)>>,
                                                  "", "int")))
  IN  /\ At(g, {"Exec"})
      /\ \/ /\ ~made.ok
            /\ Returns(g, "ExecError", {})
            /\ UNCHANGED tables
         \/ /\ made.ok
            /\ tables' = [tables EXCEPT ![f.name] = made.table]
            /\ Becomes(g, [f EXCEPT !.pc = "Query"])
         \/ /\ made.ok
            /\ Becomes(g, [f EXCEPT !.pc = "Query", !.committed = "CommitError"])
            /\ UNCHANGED tables
      /\ UNCHANGED <<collectionCache, collectionCacheLock, rest>>

\* a backend that Initialize has opened on a store holding one table, which
\* is in its cache
InitPrune ==
  /\ conn = "sqlite"
  /\ db = "open"
  /\ indexer = "self"
  /\ ready = TRUE
  /\ tables = [n \in Names |->
                 IF n = "t1"
                   THEN ExecCreate(NoTable,
                                   CreateColumns(Collection(n, <<Field("name", "str", FALSE)>>,
                                                            "", "int"))).table
                   ELSE NoTable]
  /\ collectionCache = RefreshEach(EmptyCache, tables, Names, {})
  /\ call = NoCall
  /\ ret = Ret(Nil)
  /\ trace = <<>>
  /\ idxArg = NoArg
  /\ collectionCacheLock = Unlocked
  /\ goroutines = [g \in Goroutines |-> Idle]

\* the callers create collections and refresh the cache step by step, in any
\* interleaving
NextPrune ==
  \E g \in Goroutines :
    \/ GoCreate(g)
    \/ Created(g)
    \/ Go(g)
    \/ Listed(g)
    \/ RowsNext(g)
    \/ CallIntrospect(g)
    \/ Introspected(g)
    \/ Lock(g)
    \/ BeginWrite(g)
    \/ EndWrite(g)
    \/ Unlock(g)
    \/ RLock(g)
    \/ BeginRead(g)
    \/ EndRead(g)
    \/ RUnlock(g)
    \/ Purge(g)
SpecPrune == InitPrune /\ [][NextPrune]_vars

\* ------------------------------------------------------------ row decoding

\* the most columns a result has
MaxColumns == 2
\* the columns a result can have, and the values the store can hand back
ScanColumns == {"id", "name", "age"}
ScanValues == {StrV("a"), StrV("1"), IntV(1), Null}
\* the collections rows are decoded for: the second declares no "name"
ScanCollections ==
  { Collection("t1", <<Field("id", "int", TRUE), Field("name", "str", FALSE),
                       Field("age", "int", FALSE)>>, "id", "int"),
    Collection("t2", <<Field("id", "str", TRUE), Field("age", "int", FALSE)>>, "id", "str") }
\* the column lists of a result
ColumnLists == UNION {[1..n -> ScanColumns] : n \in 1..MaxColumns}

\* scanFnValueToRecord applied to one row
ScanRow ==
  /\ call = NoCall
  /\ \E collection \in ScanCollections, columns \in ColumnLists,
        row \in [ScanColumns -> ScanValues], scanFails \in BOOLEAN :
       LET r == scanFnValueToRecord(collection, columns, row, scanFails)
       IN  /\ call' = [op |-> "scanFnValueToRecord", collection |-> collection,
                       columns |-> columns, row |-> row, scanFails |-> scanFails]
           /\ ret' = [err |-> r.err, record |-> r.record]
  /\ UNCHANGED <<setup, collectionCache, tables, trace, idxArg>>

\* the row decoder applied once, to every input
NextScan == ScanRow
SpecScan == Init /\ [][NextScan]_vars

\* ------------------------------------------------------------------ claims

Count(tr, e) == Cardinality({i \in 1..Len(tr) : tr[i] = e})
Has(tr, e) == \E i \in 1..Len(tr) : tr[i] = e
Last(tr) == IF tr = <<>> THEN "" ELSE tr[Len(tr)]
IndexCalls(tr) == {i \in 1..Len(tr) : tr[i] \in {"Index", "IndexRemove"}}
Writes == {"Insert", "Update", "Delete"}
\* the errors of a record of an Insert batch: conversion, rendering, execution
RecordErrors == {"UnknownField", "ConvertError", "RenderError", "ExecError"}

\* C1: an Insert that fails at a record of its batch (value or identity
\* conversion, rendering, execution) ends its transaction by a rollback and
\* not by a commit, leaves the store as it was before the call, records
\* 1..k-1 included, and returns that error.
C1_InsertAllOrNothing ==
  [][(call'.op = "Insert" /\ ret'.err \in RecordErrors)
       => /\ tables' = tables
          /\ Last(trace') = "rollback"
          /\ ~Has(trace', "commit")
          /\ IndexCalls(trace') = {}]_vars

\* an Insert of two records failed at the second, after the first one's
\* statement ran
C1_Witness ==
  /\ call.op = "Insert"
  /\ Len(call.records) = 2
  /\ ret.err \in {"UnknownField", "ConvertError"}
  /\ Count(trace, "exec:insert") = 1
  /\ Last(trace) = "rollback"

\* C2: with an indexer attached, a write calls the indexer exactly once when
\* its transaction committed, right after the commit, with the collection
\* and the record set (Index) or id set (IndexRemove) of the call, and not at
\* all when the transaction was rolled back or the commit failed.
C2_IndexOnceAfterCommit ==
  (call.op \in Writes /\ indexer # "nil")
    => IF Has(trace, "commit")
         THEN /\ Cardinality(IndexCalls(trace)) = 1
              /\ IndexCalls(trace) = {Len(trace)}
              /\ trace[Len(trace) - 1] = "commit"
              /\ idxArg.op = (IF call.op = "Delete" THEN "IndexRemove" ELSE "Index")
              /\ idxArg.name = call.name
              /\ idxArg.records = call.records
              /\ idxArg.ids = call.ids
         ELSE IndexCalls(trace) = {} /\ idxArg = NoArg

\* an Insert of two records committed and was indexed
C2_Witness ==
  /\ call.op = "Insert"
  /\ indexer = "ext"
  /\ Len(call.records) = 2
  /\ Has(trace, "commit")
  /\ Last(trace) = "Index"
  /\ ret.err = Nil

\* C3: when the indexer call fails, the write returns the index error, no
\* rollback is issued, the indexer is called once, and the store holds what
\* the same call leaves when the indexer call succeeds.
C3_IndexErrorKeepsWrite ==
  [][(call'.op \in Writes /\ ret'.err = "IndexError")
       => /\ ~Has(trace', "rollback")
          /\ Has(trace', "commit")
          /\ Cardinality(IndexCalls(trace')) = 1
          /\ call'.op = "Insert" =>
               /\ tables' = InsertRun(call'.name, call'.records, NoFault).tables
               /\ Cardinality(tables'[call'.name].rows)
                    = Cardinality(tables[call'.name].rows) + Len(call'.records)
          /\ call'.op = "Update" =>
               tables' = UpdateRun(call'.name, call'.records, call'.target, NoFault).tables
          /\ call'.op = "Delete" =>
               /\ tables' = DeleteRun(call'.name, call'.ids, NoFault).tables
               /\ \A id \in call'.ids :
                    QueryRows(tables'[call'.name], FilterEq(DefaultIdentityField, {id})).rows = {}]_vars

\* an Insert put a row in the store and returned the index error
C3_Witness ==
  /\ call.op = "Insert"
  /\ ret.err = "IndexError"
  /\ Len(call.records) = 2
  /\ Cardinality(tables[call.name].rows) = 2

\* a row of table n has the identity value id, as the store compares them
SameId(v, id) ==
  \/ v = id
  \/ id.k = "s" /\ IsNumStr(id.s) /\ v = IntV(ParseInt(id.s))
HasRow(tbls, n, id) ==
  /\ tbls[n].live
  /\ \E r \in tbls[n].rows : SameId(r[PkCol(tbls[n]).Name], id)
AllIds == {IntV(i) : i \in 1..MaxId}

\* C4: a Delete that commits leaves no row with one of its ids, and has
\* called IndexRemove with those ids if an indexer is attached; a row with an
\* id the table did not have appears only by an Insert that commits; and
\* Exists answers true only if the table has a row with that id. So from a
\* committed Delete(coll, id) on, Exists(coll, id) is false until an Insert
\* of that id commits.
C4_DeleteThenExists ==
  [][/\ (call'.op = "Delete" /\ Has(trace', "commit"))
          => /\ \A id \in call'.ids : ~HasRow(tables', call'.name, id)
             /\ indexer # "nil"
                  => /\ idxArg'.op = "IndexRemove"
                     /\ idxArg'.name = call'.name
                     /\ idxArg'.ids = call'.ids
     /\ \A n \in Names, id \in AllIds :
          (HasRow(tables', n, id) /\ ~HasRow(tables, n, id))
            => call'.op = "Insert" /\ call'.name = n /\ Has(trace', "commit")
     /\ (call'.op = "Exists" /\ ret'.found)
          => \A id \in call'.ids : HasRow(tables', call'.name, id)]_vars

\* a Delete committed, removed its row and left another, and called IndexRemove
C4_Witness ==
  /\ call.op = "Delete"
  /\ Has(trace, "commit")
  /\ idxArg.op = "IndexRemove"
  /\ call.ids = {IntV(1)}
  /\ HasRow(tables, call.name, IntV(2))
  /\ ~HasRow(tables, call.name, IntV(1))

\* the first record of a batch without an ID (0: none)
NoIdAt(records) == {k \in 1..Len(records) : ~HasID(records[k])}
FirstNoId(records) ==
  IF NoIdAt(records) = {} THEN 0
  ELSE CHOOSE k \in NoIdAt(records) : \A j \in NoIdAt(records) : k <= j

ConvFailAt(c, records) ==
  {k \in 1..Len(records) :
     \/ Rejected(c, records[k]) # {}
     \/ HasID(records[k]) /\ ConvertValue(c, c.IdentityField, records[k].ID).err # Nil}
FirstConvFail(c, records) ==
  IF ConvFailAt(c, records) = {} THEN 0
  ELSE CHOOSE k \in ConvFailAt(c, records) : \A j \in ConvFailAt(c, records) : k <= j
ConvertErrors == {"UnknownField", "ConvertError"}
Statements ==
  {"exec:set", "exec:insert", "exec:update", "exec:delete", "exec:create", "exec:drop",
   "query:select", "query:tables", "query:tables!", "query:details", "query:details!"}

\* C6 as claimed: an Insert that returns a conversion error has executed no
\* statement.
C6_NoStatementBeforeError ==
  (call.op = "Insert" /\ ret.err \in ConvertErrors)
    => \A i \in 1..Len(trace) : trace[i] \notin Statements

\* C6: an Insert whose batch has a record that fails conversion executes no
\* insert statement for that record or a later one, returns an error and
\* commits nothing; when the error is the conversion error, the statements of
\* all the records before it have been executed and the transaction is rolled
\* back.
C6_NoStatementFromFailingRecord ==
  (/\ call.op = "Insert"
   /\ call.name \in DOMAIN collectionCache
   /\ FirstConvFail(collectionCache[call.name], call.records) > 0)
    => /\ Count(trace, "exec:insert") < FirstConvFail(collectionCache[call.name], call.records)
       /\ ret.err # Nil
       /\ ~Has(trace, "commit")
       /\ ret.err \in ConvertErrors
            => /\ Count(trace, "exec:insert")
                    = FirstConvFail(collectionCache[call.name], call.records) - 1
               /\ Last(trace) = "rollback"

\* an Insert returned the unknown-field error of its second record after the
\* first one's statement ran
C6_Witness ==
  /\ call.op = "Insert"
  /\ ret.err = "UnknownField"
  /\ Len(call.records) = 2
  /\ Count(trace, "exec:insert") = 1

\* C7 as claimed: an Initialize that fails leaves no connection handle and
\* no cache entry behind.
C7_FailedInitializeLeavesNothing ==
  (call.op = "Initialize" /\ ret.err # Nil)
    => db = "nil" /\ collectionCache = EmptyCache

\* C8 as claimed: an operation sends a statement or a query to the store
\* only if an Initialize call has returned success.
C8_NoStatementUnlessReady ==
  (call.op \notin {"Initialize", "ExternalDrop", ""} /\ \E i \in 1..Len(trace) : trace[i] \in Statements)
    => ready

\* GetCollection, on an open connection, on a table that is neither live nor
\* cached
GetsDropped ==
  /\ call.op = "GetCollection"
  /\ db # "nil"
  /\ ~tables[call.name].live
  /\ call.name \notin DOMAIN collectionCache

\* C9 as claimed: GetCollection on a dropped table that a refreshAll has
\* pruned fails with CollectionNotFound.
C9_DroppedIsNotFound ==
  GetsDropped => ret.err = "CollectionNotFound"

\* C9: a refreshAllCollections whose listing query succeeded leaves no cache
\* entry for a table the store does not have; a table that is not cached and
\* not live after a step is not cached after it; GetCollection on such a
\* table returns no Collection and fails with CollectionNotFound, or with the
\* introspection error when the introspection call fails.
C9_PrunedStaysNotFound ==
  [][/\ Has(trace', "query:tables") => \A n \in DOMAIN collectionCache' : tables'[n].live
     /\ \A n \in Names :
          (n \notin DOMAIN collectionCache /\ ~tables'[n].live) => n \notin DOMAIN collectionCache'
     /\ GetsDropped' =>
          /\ ret'.err \in {"CollectionNotFound", "IntrospectError"}
          /\ ret'.collection = NoCollection
          /\ trace' = IF ret'.err = "IntrospectError" THEN <<"query:details!">>
                                                        ELSE <<"query:details">>]_vars

\* a ListCollections whose listing succeeded deleted the cache entry of a
\* table the store no longer has, and kept the entry of a live one
C9_Witness ==
  /\ call.op = "ListCollections"
  /\ ret.err = Nil
  /\ Has(trace, "purge")
  /\ \E n \in Names : ~tables[n].live /\ n \notin DOMAIN collectionCache
  /\ \E n \in Names : tables[n].live /\ n \in DOMAIN collectionCache

\* C10 as claimed: ListCollections returns only names its listing reported,
\* and GetCollection returns no Collection for a table the store does not
\* have.
C10_SchemaReflectsStore ==
  /\ (call.op = "ListCollections" /\ ret.err = Nil) => ret.names \subseteq LiveTables(tables)
  /\ (call.op = "GetCollection" /\ ret.err = Nil) => tables[call.name].live

\* C10: ListCollections returns only names its listing reported;
\* GetCollection returns the live table's description when the table is
\* live, and for a table the store does not have it returns a Collection only
\* if the cache still held the entry before the call, and then that entry.
C10_SchemaReflectsStoreOrCache ==
  [][/\ (call'.op = "ListCollections" /\ ret'.err = Nil)
          => ret'.names \subseteq LiveTables(tables')
     /\ (call'.op = "GetCollection" /\ ret'.err = Nil)
          => IF tables'[call'.name].live
               THEN ret'.collection = Introspect(tables', call'.name)
               ELSE /\ call'.name \in DOMAIN collectionCache
                    /\ ret'.collection = collectionCache[call'.name]]_vars

\* GetCollection returned the cached Collection of a table that was dropped
C10_Witness ==
  /\ call.op = "GetCollection"
  /\ ret.err = Nil
  /\ ~tables[call.name].live
  /\ ret.collection.Name = call.name

\* the row of table n with the identity value id
RowOf(tbls, n, id) == CHOOSE r \in tbls[n].rows : SameId(r[PkCol(tbls[n]).Name], id)
\* the id a Retrieve or Exists call asks for
AskedId == CHOOSE id \in call.ids : TRUE
\* the errors of looking the collection up and of decoding a row
DecodeErrors == {"CollectionNotFound", "UnknownField", "ConvertError"}

\* C11 as claimed: a Retrieve that succeeds returns a Record with the id
\* asked for as its ID and the row's name among its Fields, and an Insert that
\* has committed reports success.
C11_RoundTrip ==
  /\ (call.op = "Retrieve" /\ ret.err = Nil)
       => /\ SameId(ret.record.ID, AskedId)
          /\ "name" \in DOMAIN ret.record.Fields
  /\ (call.op = "Insert" /\ Has(trace, "commit")) => ret.err = Nil

\* C11: an Insert that commits has put, for each record of the batch, a row
\* holding the record's converted field values (and its converted ID when it
\* has one) into the table, and returns nil or the indexer's error; a
\* Retrieve on a cached collection whose table has a row with the id asked
\* for does not fail in the lookup of the collection or the decoding of the
\* row, and when it succeeds it returns that row: the values of the selected columns as Fields, and as
\* ID the row's identity value when the identity column is selected (always,
\* without a projection), nil when the projection leaves it out.
C11_RoundTripOfSelectedColumns ==
  [][/\ (call'.op = "Insert" /\ Has(trace', "commit"))
          => /\ ret'.err \in {Nil, "IndexError"}
             /\ \A k \in 1..Len(call'.records) :
                  \E r \in tables'[call'.name].rows :
                    /\ \A f \in DOMAIN call'.records[k].Fields :
                         r[f] = ConvertValue(collectionCache[call'.name], f,
                                             call'.records[k].Fields[f]).val
                    /\ HasID(call'.records[k])
                         => SameId(r[DefaultIdentityField], call'.records[k].ID)
     /\ (call'.op = "Retrieve" /\ Cached(call'.name) /\ HasRow(tables, call'.name, AskedId'))
          => ret'.err \notin DecodeErrors
     /\ (call'.op = "Retrieve" /\ ret'.err = Nil)
          => /\ HasRow(tables, call'.name, AskedId')
             /\ LET row == RowOf(tables, call'.name, AskedId')
                    cols == IF call'.fields = <<>> THEN ColNames(tables[call'.name])
                            ELSE {call'.fields[i] : i \in 1..Len(call'.fields)}
                    idField == collectionCache[call'.name].IdentityField
                IN  /\ DOMAIN ret'.record.Fields = cols \ {idField}
                    /\ \A f \in cols \ {idField} : ret'.record.Fields[f] = row[f]
                    /\ ret'.record.ID = IF idField \in cols THEN row[idField] ELSE Null]_vars

\* a Retrieve by the string "2", without projection, returned the row an
\* Insert of a record without ID made: ID 2 and name "b"
C11_Witness ==
  /\ call.op = "Retrieve"
  /\ call.fields = <<>>
  /\ call.ids = {StrV("2")}
  /\ ret.err = Nil
  /\ ret.record = Record(IntV(2), OneField("name", StrV("b")))

\* the errors of the store's calls in a Retrieve
RetrieveEnvErrors == {"FilterError", "RenderError", "QueryError", "ScanError"}

\* C12 as claimed: a Retrieve on a cached collection whose table the store
\* has returns the record-not-found error only if no row has the id asked
\* for; if no row has it, it returns that error unless a call on the store
\* failed; and it never returns both a Record and an error.
C12_NotFoundExactlyWhenNoRow ==
  (call.op = "Retrieve" /\ Cached(call.name) /\ tables[call.name].live)
    => /\ ret.err = "RecordNotFound" => ~HasRow(tables, call.name, AskedId)
       /\ (~HasRow(tables, call.name, AskedId) /\ ret.err \notin RetrieveEnvErrors)
            => ret.err = "RecordNotFound"
       /\ ret.err # Nil => ret.record = NoRecord

\* C13: Exists surfaces no error; it answers true only when the collection
\* is cached, the query ran and the table has a row with that identity
\* value; it makes no call on the store when the collection is not cached,
\* and answers false when Begin fails or the query is not reached; and a
\* transaction it began is ended, by one Commit, as its last call.
C13_ExistsFalseOnFailure ==
  call.op = "Exists"
    => /\ ret.err = Nil
       /\ ret.record = NoRecord
       /\ ret.found
            => /\ Cached(call.name)
               /\ HasRow(tables, call.name, AskedId)
               /\ trace = <<"begin", "query:select", "commit">>
       /\ ~Cached(call.name) => ~ret.found /\ trace = <<>>
       /\ Has(trace, "begin!") => ~ret.found /\ trace = <<"begin!">>
       /\ ~Has(trace, "query:select") => ~ret.found
       /\ Has(trace, "begin")
            => /\ Last(trace) = "commit"
               /\ Count(trace, "commit") = 1
               /\ ~Has(trace, "rollback")

\* an Exists whose statement could not be built answered false for a row the
\* table has, and ended its transaction
C13_Witness ==
  /\ call.op = "Exists"
  /\ ~ret.found
  /\ HasRow(tables, call.name, AskedId)
  /\ trace = <<"begin", "commit">>

\* C14 as claimed: after PopulateRecordSetPageDetails the record set has
\* TotalPages = ceil(ResultCount / RecordsPerPage) when both are positive,
\* and Page = ceil((offset + 1) / limit) when the filter's limit is positive.
C14_PageDetails ==
  call.op = "PopulateRecordSetPageDetails"
    => /\ (ret.recordset.ResultCount > 0 /\ ret.recordset.RecordsPerPage > 0)
            => ret.recordset.TotalPages
                 = Ceil(ret.recordset.ResultCount, ret.recordset.RecordsPerPage)
       /\ call.f.Limit > 0
            => ret.recordset.Page = Ceil(call.f.Offset + 1, call.f.Limit)

\* C15 as claimed: Diff of a Collection with itself yields no deltas, and
\* Diff leaves both Collections as they were.
C15_DiffReflexive ==
  call.op = "Diff"
    => /\ call.desired = call.actual => ret.deltas = <<>>
       /\ ret.desired = call.desired
       /\ ret.actual = call.actual

\* the attributes in which the collections differ, in the order name,
\* identity field, identity field type
CollectionParameters(desired, actual) ==
  (IF desired.Name # actual.Name THEN <<"">> ELSE <<>>)
  \o (IF desired.IdentityField # actual.IdentityField THEN <<"IdentityField">> ELSE <<>>)
  \o (IF desired.IdentityFieldType # actual.IdentityFieldType
        THEN <<"IdentityFieldType">> ELSE <<>>)
\* the fields of actual with the name of desired's field k
Named(desired, actual, k) ==
  {i \in 1..Len(actual.Fields) : actual.Fields[i].Name = desired.Fields[k].Name}
\* the number of deltas of desired's field k: one when actual lacks it, else
\* one for each attribute that differs from actual's first field of that name
DeltasOf(desired, actual, k) ==
  IF Named(desired, actual, k) = {} THEN 1
  ELSE LET their == actual.Fields[CHOOSE i \in Named(desired, actual, k) :
                                    \A j \in Named(desired, actual, k) : i <= j]
       IN  Cardinality({a \in {"Type", "Required"} : desired.Fields[k][a] # their[a]})
RECURSIVE DeltasBefore(_, _, _)
DeltasBefore(desired, actual, k) ==
  IF k <= 1 THEN Len(CollectionParameters(desired, actual))
  ELSE DeltasBefore(desired, actual, k - 1) + DeltasOf(desired, actual, k - 1)

\* C16: the deltas of Diff are the collection-level deltas of the attributes
\* that differ, in the order name, identity field, identity field type,
\* followed for each field of desired, in declaration order, by that field's
\* deltas: exactly one "is missing" delta when actual has no field of that
\* name, the deltas of the field-level comparison otherwise; nothing else, so
\* a field only actual has yields no delta.
C16_DiffOrder ==
  call.op = "Diff"
    => LET desired == call.desired
           actual == call.actual
           deltas == ret.deltas
           params == CollectionParameters(desired, actual)
       IN  /\ Len(deltas) = DeltasBefore(desired, actual, Len(desired.Fields) + 1)
           /\ \A i \in 1..Len(params) :
                /\ i <= Len(deltas)
                /\ deltas[i].Type = "CollectionDelta"
                /\ deltas[i].Parameter = params[i]
           /\ \A k \in 1..Len(desired.Fields) :
                \A i \in (DeltasBefore(desired, actual, k) + 1)
                           ..DeltasBefore(desired, actual, k + 1) :
                  /\ i <= Len(deltas)
                  /\ deltas[i].Type = "FieldDelta"
                  /\ deltas[i].Name = desired.Fields[k].Name
                  /\ (deltas[i].Message = "is missing") = (Named(desired, actual, k) = {})

\* a Diff of collections that differ in name and identity field type, where
\* actual lacks desired's first field, differs in the second, and has a field
\* of its own
C16_Witness ==
  /\ call.op = "Diff"
  /\ Len(ret.deltas) = 5
  /\ Len(call.desired.Fields) = 2
  /\ ret.deltas[3].Message = "is missing"
  /\ ret.deltas[4].Parameter = "Type"
  /\ \E i \in 1..Len(call.actual.Fields) :
       \A k \in 1..Len(call.desired.Fields) :
         call.actual.Fields[i].Name # call.desired.Fields[k].Name

\* the position of the first event e of a trace (0: none)
FirstAt(tr, e) ==
  IF Has(tr, e) THEN CHOOSE i \in 1..Len(tr) : tr[i] = e /\ \A j \in 1..(i - 1) : tr[j] # e
  ELSE 0

UnknownAt(c, records) ==
  {k \in 1..Len(records) : \E f \in DOMAIN records[k].Fields : ~GetField(c, f).ok}

\* C18 as claimed: an Insert or an Update on a cached collection whose batch
\* has a record naming a field the collection does not declare returns an
\* error and executes no statement for that record.
C18_UnknownFieldRejected ==
  (/\ call.op \in {"Insert", "Update"}
   /\ Cached(call.name)
   /\ UnknownAt(collectionCache[call.name], call.records) # {})
    => /\ ret.err # Nil
       /\ \A k \in UnknownAt(collectionCache[call.name], call.records) :
            Count(trace, "exec:insert") + Count(trace, "exec:update") < k

\* the goroutine holds the cache lock, shared or exclusive
Holds(g) == g \in collectionCacheLock.readers \/ collectionCacheLock.writer = g
Reading(g) == goroutines[g].pc = "reading"
Writing(g) == goroutines[g].pc \in {"inserting", "deleting"}

\* C19 as claimed: in every interleaving a goroutine reading the cache map
\* holds the lock (shared or exclusive), one inserting or deleting an entry
\* holds it exclusively, and no goroutine reads the map while another is
\* inserting or deleting.
C19_MapAccessUnderLock ==
  \A g \in Goroutines :
    /\ Reading(g) => Holds(g)
    /\ Writing(g) => collectionCacheLock.writer = g
    /\ Reading(g) => \A h \in Goroutines \ {g} : ~Writing(h)

\* a store query of the goroutine is under way: the table listing, the
\* iteration over its rows, the introspection of one table
Querying(g) == goroutines[g].pc \in {"Query", "Next", "refreshCollectionFunc"}

\* C20: while the process runs, a goroutine whose store query is under way
\* holds no cache lock, a goroutine holds the exclusive lock only from its
\* acquisition, through the one map insert or delete, to its release, and a
\* goroutine that is in no operation holds no lock.
C20_NoQueryUnderLock ==
  \A g \in Goroutines :
    goroutines[g].pc # "crashed" =>
      /\ Querying(g) => ~Holds(g)
      /\ collectionCacheLock.writer = g =>
           goroutines[g].pc \in {"insert", "inserting", "Unlock",
                                  "delete", "deleting", "purgeUnlock"}
      /\ g \in collectionCacheLock.readers => goroutines[g].pc \in {"read", "reading", "RUnlock"}
      /\ goroutines[g].pc = "idle" => ~Holds(g)

\* an introspection query of one goroutine is under way while another, in a
\* cache lookup, holds the shared lock and reads the map
C20_Witness ==
  \E g \in Goroutines, h \in Goroutines :
    /\ goroutines[g].pc = "refreshCollectionFunc"
    /\ goroutines[h].op = "getCollectionFromCache"
    /\ Reading(h)
    /\ h \in collectionCacheLock.readers

\* the columns of the decoded result, those the collection does not declare,
\* and what the field of a column makes of the row's value
ColumnsOf(columns) == {columns[i] : i \in 1..Len(columns)}
Undeclared(c, columns) == {k \in ColumnsOf(columns) : ~GetField(c, k).ok}
Decoded(c, row, k) == FieldConvertValue(GetField(c, k).field, row[k])
Unconvertible(c, columns, row) ==
  {k \in ColumnsOf(columns) \ Undeclared(c, columns) : Decoded(c, row, k).err # Nil}

\* C21: row decoding returns no record with an error; a result column the
\* collection does not declare gives the unknown-field error whether or not
\* the scan would fail; a value that does not convert gives an error and no
\* record; a row that scans and converts decodes to a record whose ID is the
\* identity column's value, whose fields do not hold the identity column and
\* hold every other returned column.
C21_RowDecoding ==
  call.op = "scanFnValueToRecord" =>
    LET c == call.collection
        columns == call.columns
        row == call.row
    IN  /\ ret.err # Nil => ret.record = NoRecord
        /\ Undeclared(c, columns) # {} => ret.err = "UnknownField"
        /\ (Undeclared(c, columns) = {} /\ ~call.scanFails /\ Unconvertible(c, columns, row) # {})
             => ret.err = "ConvertError"
        /\ (Undeclared(c, columns) = {} /\ ~call.scanFails /\ Unconvertible(c, columns, row) = {})
             => ret.err = Nil
        /\ ret.err = Nil =>
             /\ c.IdentityField \in ColumnsOf(columns)
                  => ret.record.ID = Decoded(c, row, c.IdentityField).val
             /\ DOMAIN ret.record.Fields = ColumnsOf(columns) \ {c.IdentityField}
             /\ \A k \in DOMAIN ret.record.Fields : ret.record.Fields[k] = Decoded(c, row, k).val

\* a row with its identity column and another column decoded, the stored
\* string converted to the int the field declares
C21_Witness ==
  /\ call.op = "scanFnValueToRecord"
  /\ ret.err = Nil
  /\ call.columns = <<"age", "id">>
  /\ call.row["age"] = StrV("1")
  /\ ret.record = Record(call.row["id"], [k \in {"age"} |-> IntV(1)])
  /\ ret.record.ID # Null

\* the rows an update of one record is aimed at: those with the record's ID
\* when it has one, those the batch-wide target filter selects when not
Targeted(t, record, row) ==
  IF HasID(record) THEN SameId(row[PkCol(t).Name], record.ID)
                   ELSE Matches(t, TargetFilter, row)
\* a row with the record's fields, the identity field left out, written to it
Overwritten(t, c, record, row) ==
  [cn \in ColNames(t) |->
     IF cn \in DOMAIN record.Fields \ {c.IdentityField}
       THEN Coerce(ColOf(t, cn), record.Fields[cn]) ELSE row[cn]]

TxOperations == {"Insert", "Update", "Delete", "Exists", "CreateCollection", "DeleteCollection"}
TxStatements == {"exec:set", "exec:insert", "exec:update", "exec:delete", "exec:create",
                 "exec:drop", "query:select"}
TxEnds == {"commit", "commit!", "rollback"}
EndsAt(tr) == {i \in 1..Len(tr) : tr[i] \in TxEnds}

\* C23: an operation that has begun a transaction has begun one only, as its
\* first call, and has ended it exactly once, by Commit or by Rollback, after
\* the last statement it sent on it, whatever it returns; an operation that
\* has begun none has ended none.
C23_TransactionEndedOnce ==
  call.op \in TxOperations =>
    /\ Count(trace, "begin") <= 1
    /\ Has(trace, "begin") =>
         /\ trace[1] = "begin"
         /\ Cardinality(EndsAt(trace)) = 1
         /\ \A i \in 1..Len(trace), j \in EndsAt(trace) : trace[i] \in TxStatements => i < j
    /\ ~Has(trace, "begin") =>
         /\ EndsAt(trace) = {}
         /\ \A i \in 1..Len(trace) : trace[i] \notin TxStatements

\* an Insert has failed at its second statement and rolled the transaction
\* back, once
C23_Witness ==
  /\ call.op = "Insert"
  /\ ret.err = "ExecError"
  /\ trace = <<"begin", "exec:insert", "exec:insert", "rollback">>

\* C24 as claimed, for the refreshAll whose table listing was read without
\* error: the purge never deletes the cache entry of a table that is live in
\* the store when it deletes it.
C24_PurgeSparesLive ==
  [][\A g \in Goroutines :
       (/\ goroutines[g].pc = "deleting"
        /\ goroutines'[g].pc = "purgeUnlock"
        /\ goroutines[g].name \in DOMAIN collectionCache
        /\ goroutines[g].err = Nil)
         => ~tables[goroutines[g].name].live]_vars

\* the operations that resolve their collection from the cache alone
CacheOnly == {"Insert", "Update", "Delete", "Retrieve", "DeleteCollection"}
\* a call of one of them on a name the cache does not hold made nothing but
\* the lookup: no transaction, no statement, no indexer call, no refresh, no
\* change of the store or of the cache
OnlyLookedUp ==
  /\ trace' = <<>>
  /\ idxArg' = NoArg
  /\ tables' = tables
  /\ collectionCache' = collectionCache

\* C25 as claimed: each of these operations on a name that is not in the
\* cache fails with CollectionNotFound and does nothing else.
C25_UncachedIsNotFound ==
  [][(call'.op \in CacheOnly /\ call'.name \notin DOMAIN collectionCache)
       => ret'.err = "CollectionNotFound" /\ OnlyLookedUp]_vars

\* C25: each of these operations on a name that is not in the cache fails
\* and does nothing else; the error is CollectionNotFound, or, for an Update
\* given a target filter that does not parse, the parse error.
C25_UncachedFailsEarly ==
  [][(call'.op \in CacheOnly /\ call'.name \notin DOMAIN collectionCache)
       => /\ ret'.err \in {"CollectionNotFound"}
                           \cup (IF call'.op = "Update" /\ call'.target THEN {"ParseError"}
                                                                        ELSE {})
          /\ OnlyLookedUp]_vars

\* an Insert of a record has failed with CollectionNotFound on a table that
\* is live in the store and not in the cache
C25_Witness ==
  /\ call.op = "Insert"
  /\ call.records # <<>>
  /\ ret.err = "CollectionNotFound"
  /\ tables[call.name].live
  /\ call.name \notin DOMAIN collectionCache
  /\ trace = <<>>

\* the operations that run refreshAllCollections, and the errors an operation
\* on a cached collection returns before it calls the store
Refreshers == {"Initialize", "CreateCollection", "ListCollections"}
BeforeStore == {"ParseError", "FilterError", "RenderError"}

\* C26: DeleteCollection leaves the schema cache as it was, whether or not
\* the drop commits; an entry leaves the cache only in an operation that runs
\* refreshAllCollections and has read the table listing; and as long as the
\* entry is there, Insert, Update, Delete, Retrieve and DeleteCollection on
\* that name do not fail with CollectionNotFound and call the store, unless
\* they fail before on their filter.
C26_DropKeepsCacheEntry ==
  [][/\ call'.op = "DeleteCollection" => collectionCache' = collectionCache
     /\ DOMAIN collectionCache \ DOMAIN collectionCache' # {}
          => call'.op \in Refreshers /\ Has(trace', "query:tables")
     /\ (call'.op \in CacheOnly /\ call'.name \in DOMAIN collectionCache)
          => /\ ret'.err # "CollectionNotFound"
             /\ trace' = <<>> => ret'.err \in BeforeStore]_vars

\* a DeleteCollection has committed the drop: the table is gone from the
\* store and its entry is still in the cache
C26_Witness ==
  /\ call.op = "DeleteCollection"
  /\ ret.err = Nil
  /\ trace = <<"begin", "exec:drop", "commit">>
  /\ ~tables[call.name].live
  /\ call.name \in DOMAIN collectionCache

====
